---------------------------- MODULE Spec2Model ----------------------------
(***************************************************************************)
(* k-Cops and Robbers retrograde solvers (k_cops.cpp, k_cops_2.cpp,        *)
(* k_cops_3.cpp, k_cops_4.cpp, k_cops_rounds.cpp) with the flat adjacency  *)
(* index (AdjacencyList) and the packed configuration enumerator.          *)
(*                                                                         *)
(* C arrays are modelled as sequences; the C index i is the TLA+ index     *)
(* i + 1 (operators At and Upd).  Flags are the integers 0 and 1, as in    *)
(* the uint8_t tables of the source.                                       *)
(***************************************************************************)
EXTENDS Integers, Sequences, FiniteSets, TLC

\* ------------------------------------------------------------------ bounds
MaxN == 4
MaxK == 2
MaxTail == 1
WaveMaxN == 3
WaveMaxK == 2
MaxThreads == 2
MaxPathLines == 12
MainMaxN == 2
MainMaxK == 1
MaxArgc == 4
\* k_cops_5.cpp hands out the frontier in batches of BATCH_SIZE = 4096 entries;
\* the frontiers met here have a few dozen, so the batch is scaled down to keep
\* several workers busy within one wave
BatchSize == 1
PackMaxN == 3
PackMaxK == 1

\* ------------------------------------------------------- program constants
SENTINEL == 255
MAX_COPS == 256
NOT_FOUND == -1
SEARCH_OOB == -2
BIG_STEPS == 999999
\* the status of a process ended by std::terminate (SIGABRT)
ABORTED == 134
\* k_cops_5.cpp: the layout of the packed state byte
COP_WIN_BIT == 1
SAFE_MOVES_SHIFT == 1
SAFE_MOVES_MASK == 254

VARIABLES
    N,                  \* g->nodeCount
    k,                  \* number of cops
    g,                  \* the edge oracle's relation (symmetric, irreflexive)
    heapTail,           \* the bytes the build places right after AdjacencyList::edges
    variant,            \* which solver file runs
    pc,                 \* position inside solveCopsAndRobbers
    maxDegree,          \* AdjacencyList::maxDegree
    edges,              \* AdjacencyList::edges, the flat N x maxDegree table
    configCount,        \* *outNumConfigs
    configs,            \* packed configuration bytes written so far
    current,            \* generateCopConfigs: current[0..k-1]
    offset,             \* generateCopConfigs: offset
    copConfigs,         \* k_cops.cpp: vector<vector<int>> copConfigs
    copTransitions,     \* k_cops.cpp: vector<vector<size_t>> copTransitions
    transitionHeads,    \* CSR heads (configCount + 1 entries)
    transitions,        \* CSR targets, pre-multiplied by N
    copTurnWins,
    robberTurnWins,
    robberSafeMoves,
    stepsToWin,         \* k_cops_rounds.cpp
    workQueue,          \* k_cops_3.cpp: entries <<stateId, isRobberTurn>>
    qReadHead,
    passes,
    changed,
    winningStartConfigId,
    overallMinWorstCase,
    numThreads,         \* k_cops_4.cpp: std::thread::hardware_concurrency()
    currentFrontier,    \* k_cops_4.cpp: entries <<stateId, isRobberTurn>>
    localNextFrontiers, \* k_cops_4.cpp: one vector per worker
    cursor,             \* k_cops_4.cpp: per worker, q, endIdx and the inner loop index
    currCId,            \* k_cops_rounds.cpp: path extraction, the cops' configuration id
    currRobber,         \* k_cops_rounds.cpp: path extraction, the robber's vertex
    pathFile,           \* k_cops_rounds.cpp: the lines <<cops, robber, tag>> of temp_path.txt
    argc,               \* main: the argument count
    kNumeric,           \* main: argv[2] is a decimal integer that std::stoi converts
    exitCode,           \* the status the process ends with, -1 while it runs
    gameStates,         \* k_cops_5.cpp: one packed byte per state
    sharedIndex,        \* k_cops_5.cpp: the atomic work dispenser of a wave
    pushLog,            \* history: the frontier entries pushed so far, and those pushed again
    expandedBy,         \* history: per entry of the current frontier, the workers that took it
    probe               \* buildTransitions: cId, the odometer's tuple index, the last nextId

inputVars == << N, k, g, heapTail, variant, numThreads >>
adjVars == << maxDegree, edges >>
genVars == << configCount, configs, current, offset >>
vecVars == << copConfigs, copTransitions >>
csrVars == << transitionHeads, transitions >>
tableVars == << copTurnWins, robberTurnWins, robberSafeMoves, stepsToWin >>
loopVars == << workQueue, qReadHead, passes, changed >>
verdictVars == << winningStartConfigId, overallMinWorstCase >>
waveVars == << currentFrontier, localNextFrontiers, cursor >>
traceVars == << currCId, currRobber, pathFile >>
mainVars == << argc, kNumeric, exitCode >>
packVars == << gameStates, sharedIndex >>
histVars == << pushLog, expandedBy >>
probeVars == << probe >>

vars == << inputVars, pc, adjVars, genVars, vecVars, csrVars, tableVars, loopVars,
           verdictVars, waveVars, traceVars, mainVars, packVars, histVars, probeVars >>

\* ----------------------------------------------------------------- helpers
At(a, i) == a[i + 1]
Upd(a, i, v) == [a EXCEPT ![i + 1] = v]
Fill(n, v) == [i \in 1..n |-> v]

Range(s) == { s[i] : i \in DOMAIN s }

\* an array given by an index-to-value rule, with every cell computed once
Array(f) == f \o << >>

\* a loop "for (i = lo; i < hi; ++i) st = Op(st, i)", split in halves so that the
\* evaluation depth stays logarithmic in hi - lo; the first half is computed to
\* a value before the second half starts from it
RECURSIVE FoldRange(_, _, _, _)
FoldRange(Op(_, _), st, lo, hi) ==
    IF hi <= lo THEN st
    ELSE IF hi = lo + 1 THEN Op(st, lo)
    ELSE LET mid == lo + (hi - lo) \div 2
         IN  CHOOSE res \in { FoldRange(Op, half, mid, hi) :
                                half \in { FoldRange(Op, st, lo, mid) } } : TRUE

\* the elements of a set of integers in increasing order
SortedSeqOf(S) ==
    Array([i \in 1..Cardinality(S) |->
              CHOOSE x \in S : Cardinality({ y \in S : y < x }) = i - 1])

\* std::sort on a byte / id array: position i holds the value v with
\* #(entries below v) < i <= #(entries up to v)
StdSort(s) ==
    Array([i \in 1..Len(s) |->
              CHOOSE v \in Range(s) :
                  /\ Cardinality({ j \in 1..Len(s) : s[j] < v }) < i
                  /\ i <= Cardinality({ j \in 1..Len(s) : s[j] <= v })])

\* std::unique + erase on a sorted array: one entry per distinct value, in order
Unique(s) == SortedSeqOf(Range(s))

\* std::memcmp / lexicographic compare of two equally long records: -1, 0, 1
RECURSIVE memcmp(_, _)
memcmp(a, b) ==
    IF a = << >> THEN 0
    ELSE IF Head(a) < Head(b) THEN -1
    ELSE IF Head(a) > Head(b) THEN 1
    ELSE memcmp(Tail(a), Tail(b))

\* ------------------------------------------------------------ graph oracle
Vertices(n) == 0 .. (n - 1)
EdgePairs(n) == { p \in Vertices(n) \X Vertices(n) : p[1] < p[2] }
getEdge(gr, i, j) == << i, j >> \in gr \/ << j, i >> \in gr

\* ------------------------------------------- AdjacencyList::AdjacencyList
NeighbourSet(n, gr, i) == { j \in Vertices(n) : getEdge(gr, i, j) }
AdjMaxDegree(n, gr) ==
    IF n = 0 THEN 0
    ELSE LET ds == { Cardinality(NeighbourSet(n, gr, i)) : i \in Vertices(n) }
         IN  CHOOSE d \in ds : \A e \in ds : e <= d
AdjRow(n, gr, i, d) ==
    LET nb == SortedSeqOf(NeighbourSet(n, gr, i))
    IN  [e \in 1..d |-> IF e <= Len(nb) THEN nb[e] ELSE SENTINEL]
\* the rows of the vertices i .. n - 1 laid end to end: edges[v * maxDegree + e]
AdjRows(n, gr, i, d) ==
    LET rows == Array([r \in 1..(n - i) |-> AdjRow(n, gr, i + r - 1, d)])
    IN  Array([p \in 1..((n - i) * d) |-> rows[((p - 1) \div d) + 1][((p - 1) % d) + 1]])
AdjacencyList(n, gr) ==
    LET d == AdjMaxDegree(n, gr)
    IN  [maxDegree |-> d, edges |-> AdjRows(n, gr, 0, d)]

\* AdjacencyList::getEdges followed by the callers' loop
\*     while (edges[eIdx] != 255) ...
\* which has no bound on eIdx: the read runs through the following rows of the
\* table and, past its end, through the bytes the heap holds there.
ReadUntilSentinel(mem, i) ==
    LET stops == { j \in i .. Len(mem) : j = Len(mem) \/ At(mem, j) = SENTINEL }
        stop == CHOOSE j \in stops : \A j2 \in stops : j <= j2
    IN  SubSeq(mem, i + 1, stop)
getEdges(node) == ReadUntilSentinel(edges \o heapTail, node * maxDegree)
\* the read of row `node` meets no sentinel in the table nor in the readable bytes
\* behind it: it runs on until it leaves readable memory
Faults(node) ==
    \A j \in (node * maxDegree) .. (Len(edges) + Len(heapTail) - 1) :
        At(edges \o heapTail, j) # SENTINEL
RowFault == \E v \in Vertices(N) : Faults(v)

\* ------------------------------------------------- generateCopConfigs (packed)
RECURSIVE BinomLoop(_, _, _, _)
BinomLoop(res, i, k_val, n_val) ==
    IF i > k_val THEN res
    ELSE BinomLoop((res * (n_val - i + 1)) \div i, i + 1, k_val, n_val)
NumConfigs(kk, n) ==
    LET n_val == n + kk - 1
        k_val == kk
    IN  IF k_val > n_val THEN 0
        ELSE IF k_val = 0 \/ k_val = n_val THEN 1
        ELSE LET k2 == IF k_val > n_val \div 2 THEN n_val - k_val ELSE k_val
             IN  BinomLoop(1, 1, k2, n_val)

\* the rightmost p with current[p] # N - 1, or -1
RECURSIVE RightmostBelow(_, _, _)
RightmostBelow(cur, p, n) ==
    IF p < 0 THEN -1
    ELSE IF At(cur, p) = n - 1 THEN RightmostBelow(cur, p - 1, n)
    ELSE p
\* fault model: a plain odometer, which resets the tail to 0 instead of current[p]
NextConfigOdometer(cur, p) ==
    [i \in 1..Len(cur) |->
        IF i - 1 < p THEN cur[i] ELSE IF i - 1 = p THEN At(cur, p) + 1 ELSE 0]
NextConfig(cur, p) ==
    [i \in 1..Len(cur) |-> IF i - 1 < p THEN cur[i] ELSE At(cur, p) + 1]

Record(cfg, kk, cId) == SubSeq(cfg, cId * kk + 1, cId * kk + kk)

\* ---------------------------------------------- k_cops.cpp: vector helpers
adjVec(n, gr, i) == SortedSeqOf(NeighbourSet(n, gr, i) \cup {i})

RECURSIVE generateCopConfigsRec(_, _, _, _)
RECURSIVE GenRecLoop(_, _, _, _)
generateCopConfigsRec(kk, n, currentVal, currentConfig) ==
    IF Len(currentConfig) = kk THEN << currentConfig >>
    ELSE GenRecLoop(kk, n, currentVal, currentConfig)
GenRecLoop(kk, n, i, currentConfig) ==
    IF i >= n THEN << >>
    ELSE generateCopConfigsRec(kk, n, i, Append(currentConfig, i))
         \o GenRecLoop(kk, n, i + 1, currentConfig)

\* lexicographic order of vector<int> (operator< of std::vector)
RECURSIVE VecLess(_, _)
VecLess(a, b) ==
    IF b = << >> THEN FALSE
    ELSE IF a = << >> THEN TRUE
    ELSE IF Head(a) < Head(b) THEN TRUE
    ELSE IF Head(a) > Head(b) THEN FALSE
    ELSE VecLess(Tail(a), Tail(b))

\* std::lower_bound then std::distance: the number of entries below the key
LowerBound(cc, key) == Cardinality({ i \in 1..Len(cc) : VecLess(cc[i], key) })

SeqContains(s, x) == \E i \in 1..Len(s) : s[i] = x

RECURSIVE generateTeamMoves(_, _, _, _, _, _, _)
RECURSIVE TeamMovesLoop(_, _, _, _, _, _, _, _)
generateTeamMoves(n, gr, cc, config, copIdx, currentMoves, trans) ==
    IF copIdx = Len(config)
    THEN LET nextId == LowerBound(cc, StdSort(currentMoves))
         IN  IF SeqContains(trans, nextId) THEN trans ELSE Append(trans, nextId)
    ELSE TeamMovesLoop(n, gr, cc, config, copIdx, currentMoves, trans,
                       adjVec(n, gr, At(config, copIdx)))
TeamMovesLoop(n, gr, cc, config, copIdx, currentMoves, trans, vs) ==
    IF vs = << >> THEN trans
    ELSE TeamMovesLoop(n, gr, cc, config, copIdx, currentMoves,
            generateTeamMoves(n, gr, cc, config, copIdx + 1,
                              Append(currentMoves, Head(vs)), trans),
            Tail(vs))


\* ------------------------------------ buildTransitions (packed, CSR variants)
\* The binary search of buildTransitions.  left, right and mid are size_t: when
\* mid = 0 and the record at 0 is above the key, right = mid - 1 wraps to
\* SIZE_MAX and the next probe reads outside the array (SEARCH_OOB).
\* fault model: the two halves exchanged
RECURSIVE BinarySearchFlipped(_, _, _, _, _)
BinarySearchFlipped(cfg, kk, key, left, right) ==
    IF left > right THEN NOT_FOUND
    ELSE LET mid == left + (right - left) \div 2
             cmp == memcmp(Record(cfg, kk, mid), key)
         IN  IF cmp = 0 THEN mid
             ELSE IF cmp > 0 THEN BinarySearchFlipped(cfg, kk, key, mid + 1, right)
             ELSE IF mid = 0 THEN SEARCH_OOB
             ELSE BinarySearchFlipped(cfg, kk, key, left, mid - 1)
RECURSIVE BinarySearch(_, _, _, _, _)
BinarySearch(cfg, kk, key, left, right) ==
    IF left > right THEN NOT_FOUND
    ELSE LET mid == left + (right - left) \div 2
             cmp == memcmp(Record(cfg, kk, mid), key)
         IN  IF cmp = 0 THEN mid
             ELSE IF cmp < 0 THEN BinarySearch(cfg, kk, key, mid + 1, right)
             ELSE IF mid = 0 THEN SEARCH_OOB
             ELSE BinarySearch(cfg, kk, key, left, mid - 1)
Lookup(key) == BinarySearch(configs, k, key, 0, configCount - 1)

\* options[i][0..optionCount[i]-1]: the cop's own vertex, then the row read
Options(u) == << u >> \o getEdges(u)

\* the odometer: the j-th tuple visited (j from 0), the last cop's digit fastest
RECURSIVE Stride(_, _)
Stride(opts, i) == IF i >= Len(opts) THEN 1 ELSE Len(opts[i + 1]) * Stride(opts, i + 1)
OdometerTuple(opts, j) ==
    Array([i \in 1..Len(opts) |-> opts[i][((j \div Stride(opts, i)) % Len(opts[i])) + 1]])

\* the sorted, deduplicated tempMoves of one configuration: nextId * N per tuple
TransitionRow(cId) ==
    LET cops == Record(configs, k, cId)
        opts == Array([i \in 1..k |-> Options(cops[i])])
        total == Stride(opts, 0)
    IN  Unique(Array([j \in 1..total |-> Lookup(StdSort(OdometerTuple(opts, j - 1))) * N]))

\* heads[cId + 1] = outTransitions.size() after the row of cId is appended
RECURSIVE SumLens(_, _)
SumLens(rows, c) == IF c = 0 THEN 0 ELSE Len(rows[c]) + SumLens(rows, c - 1)
buildTransitions ==
    LET rows == Array([c \in 1..configCount |-> TransitionRow(c - 1)])
        heads == Array([c \in 1..(configCount + 1) |-> SumLens(rows, c - 1)])
        rowOf(i) == CHOOSE c \in 1..configCount : heads[c] < i /\ i <= heads[c + 1]
    IN  [heads |-> heads,
         transitions |->
             Array([i \in 1..heads[configCount + 1] |-> rows[rowOf(i)][i - heads[rowOf(i)]]])]

\* the CSR row [heads[cId], heads[cId+1]) of the built table
CsrRow(cId) == SubSeq(transitions, At(transitionHeads, cId) + 1, At(transitionHeads, cId + 1))

\* ------------------------------------------------------ initializeCaptures
numStates == configCount * N
robberDegrees(r) == (1 + Len(getEdges(r))) % 256

\* fault model: "every cop stands on r", which an empty team satisfies
CaughtByAll(cfgRecord, r) == \A i \in 1..Len(cfgRecord) : cfgRecord[i] = r
Caught(cfgRecord, r) == \E i \in 1..Len(cfgRecord) : cfgRecord[i] = r
CaughtPacked(cId, r) == Caught(Record(configs, k, cId), r)

\* k_cops_3.cpp: three byte tables and the seeded work queue
SeedQueue ==
    LET caughtIds == SortedSeqOf({ s \in 0 .. (numStates - 1) : CaughtPacked(s \div N, s % N) })
    IN  Array([j \in 1..(2 * Len(caughtIds)) |-> << caughtIds[(j + 1) \div 2], j % 2 = 0 >>])
initializeCaptures3 ==
    [cw |-> [i \in 1..numStates |-> IF CaughtPacked((i - 1) \div N, (i - 1) % N) THEN 1 ELSE 0],
     rw |-> [i \in 1..numStates |-> IF CaughtPacked((i - 1) \div N, (i - 1) % N) THEN 1 ELSE 0],
     sm |-> [i \in 1..numStates |-> IF CaughtPacked((i - 1) \div N, (i - 1) % N) THEN 0
                                     ELSE robberDegrees((i - 1) % N)],
     q  |-> SeedQueue]

\* k_cops_2.cpp and k_cops_rounds.cpp: the two flag tables only
initializeCaptures2 ==
    [cw |-> [i \in 1..numStates |-> IF CaughtPacked((i - 1) \div N, (i - 1) % N) THEN 1 ELSE 0],
     rw |-> [i \in 1..numStates |-> IF CaughtPacked((i - 1) \div N, (i - 1) % N) THEN 1 ELSE 0]]

\* k_cops.cpp, STEP 1: caught by std::find over copConfigs[cId]
initializeCaptures1(cc) ==
    LET ns == Len(cc) * N
        caught(i) == Caught(cc[((i - 1) \div N) + 1], (i - 1) % N)
    IN  [cw |-> [i \in 1..ns |-> IF caught(i) THEN 1 ELSE 0],
         rw |-> [i \in 1..ns |-> IF caught(i) THEN 1 ELSE 0],
         sm |-> [i \in 1..ns |-> IF caught(i) THEN 0 ELSE Len(adjVec(N, g, (i - 1) % N))]]


\* ------------------------------------------- k_cops.cpp: STEP 2, one pass
\* st = [cw, rw, sm, ch]: copTurnWins, robberTurnWins, robberSafeMoves, changed
ScanState1(ct, st, s) ==
    LET cId == s \div N
        r == s % N
    IN  IF At(st.cw, s) = 1 /\ At(st.rw, s) = 1 THEN st
        ELSE
          LET adjr == adjVec(N, g, r)
              safeCount == Cardinality({ e \in 1..Len(adjr) : At(st.cw, cId * N + adjr[e]) = 0 })
              st1 == IF At(st.rw, s) = 0
                     THEN [st EXCEPT !.sm = Upd(@, s, safeCount),
                                     !.rw = IF safeCount = 0 THEN Upd(@, s, 1) ELSE @,
                                     !.ch = IF safeCount = 0 THEN TRUE ELSE @]
                     ELSE st
              row == ct[cId + 1]
              canWin == \E i \in 1..Len(row) : At(st1.rw, row[i] * N + r) = 1
          IN  IF At(st1.cw, s) = 0 /\ canWin
              THEN [st1 EXCEPT !.cw = Upd(@, s, 1), !.ch = TRUE]
              ELSE st1
ScanPass1(ct, cw, rw, sm) ==
    LET visit(st, s) == ScanState1(ct, st, s)
    IN  FoldRange(visit, [cw |-> cw, rw |-> rw, sm |-> sm, ch |-> FALSE], 0, Len(cw))

\* the whole do { ... } while (changed) loop
RECURSIVE ScanRun1(_, _)
ScanRun1(ct, st) ==
    LET nx == ScanPass1(ct, st.cw, st.rw, st.sm)
    IN  IF nx.ch THEN ScanRun1(ct, nx) ELSE nx

\* ----------------------------------------- k_cops_2.cpp: STEP 6, one pass
\* st = [cw, rw, nw]: the two tables and newWinsThisPass
ScanState2(st, s) ==
    LET cId == s \div N
        r == s % N
        rEdges == getEdges(r)
        canEscape == \/ At(st.cw, s) = 0
                     \/ \E e \in 1..Len(rEdges) : At(st.cw, cId * N + rEdges[e]) = 0
        st1 == IF At(st.rw, s) = 0 /\ ~canEscape
               THEN [st EXCEPT !.rw = Upd(@, s, 1), !.nw = @ + 1]
               ELSE st
        row == CsrRow(cId)
        canWin == \E i \in 1..Len(row) : At(st1.rw, row[i] + r) = 1
    IN  IF At(st1.cw, s) = 0 /\ canWin
        THEN [st1 EXCEPT !.cw = Upd(@, s, 1), !.nw = @ + 1]
        ELSE st1
ScanPass2(cw, rw) == FoldRange(ScanState2, [cw |-> cw, rw |-> rw, nw |-> 0], 0, Len(cw))

\* the whole while (newWinsThisPass != 0) loop
RECURSIVE ScanRun2(_)
ScanRun2(st) ==
    LET nx == ScanPass2(st.cw, st.rw)
    IN  IF nx.nw # 0 THEN ScanRun2(nx) ELSE nx

\* --------------------------------- k_cops_3.cpp: STEP 6, one queue entry
\* st = [cw, rw, sm, q, rd]
\* fault model: the push made whatever the flag was
MarkCopWinAlways(st, prevStateId) ==
    [st EXCEPT !.cw = Upd(@, prevStateId, 1),
               !.q = Append(@, << prevStateId, FALSE >>)]
\* if (!copTurnWins[prevStateId]) { copTurnWins[prevStateId] = 1; push }
MarkCopWin(st, prevStateId) ==
    IF At(st.cw, prevStateId) = 0
    THEN [st EXCEPT !.cw = Upd(@, prevStateId, 1),
                    !.q = Append(@, << prevStateId, FALSE >>)]
    ELSE st
ExpandRobberTurn(st, row, r) ==
    LET visit(s, i) == MarkCopWin(s, At(row, i) + r)
    IN  FoldRange(visit, st, 0, Len(row))

DecrementSafe(st, prevStateId) ==
    IF At(st.rw, prevStateId) = 0
    THEN LET dec == (At(st.sm, prevStateId) - 1) % 256
         IN  IF dec = 0
             THEN [st EXCEPT !.sm = Upd(@, prevStateId, dec),
                             !.rw = Upd(@, prevStateId, 1),
                             !.q = Append(@, << prevStateId, TRUE >>)]
             ELSE [st EXCEPT !.sm = Upd(@, prevStateId, dec)]
    ELSE st
ExpandCopTurn(st, rEdges, cId) ==
    LET visit(s, eIdx) == DecrementSafe(s, cId * N + At(rEdges, eIdx))
    IN  FoldRange(visit, st, 0, Len(rEdges))

\* fault model: the entry is expanded but qReadHead is not advanced
QueueStepNoAdvance(st) ==
    LET packedNode == At(st.q, st.rd)
        stateId == packedNode[1]
        cId == stateId \div N
        r == stateId % N
    IN  IF packedNode[2]
        THEN ExpandRobberTurn(st, CsrRow(cId), r)
        ELSE ExpandCopTurn(DecrementSafe(st, cId * N + r), getEdges(r), cId)
QueueStep(st) ==
    LET packedNode == At(st.q, st.rd)
        stateId == packedNode[1]
        isRobberTurn == packedNode[2]
        cId == stateId \div N
        r == stateId % N
        st0 == [st EXCEPT !.rd = @ + 1]
    IN  IF isRobberTurn
        THEN ExpandRobberTurn(st0, CsrRow(cId), r)
        ELSE ExpandCopTurn(DecrementSafe(st0, cId * N + r), getEdges(r), cId)

\* the whole while (qReadHead < qWriteHead) loop; the queue holds at most
\* 2 * numStates entries, so that many turns reach its end
QueueTurn(st, i) == IF st.rd >= Len(st.q) THEN st ELSE QueueStep(st)
QueueRun(st) == FoldRange(QueueTurn, st, 0, 2 * Len(st.cw))

\* ------------------------- k_cops_rounds.cpp: one synchronous minimax pass
\* st = [cw, rw, steps, passes, ch]
\* fault model: the round of a pass rounded down
RoundOfPassFloor(p) == p \div 2
\* the round a cop win found in pass p is credited with
RoundOfPass(p) == (p + 1) \div 2
RoundsPass(st) ==
    LET p == st.passes + 1
        ids == 0 .. (Len(st.cw) - 1)
        skip(s) == At(st.cw, s) = 1 /\ At(st.rw, s) = 1
        canEscape(s) ==
            LET rEdges == getEdges(s % N)
            IN  \/ At(st.cw, s) = 0
                \/ \E e \in 1..Len(rEdges) : At(st.cw, (s \div N) * N + rEdges[e]) = 0
        canWin(s) ==
            LET row == CsrRow(s \div N)
            IN  \E i \in 1..Len(row) : At(st.rw, row[i] + (s % N)) = 1
        robberWinsToApply == { s \in ids : ~skip(s) /\ At(st.rw, s) = 0 /\ ~canEscape(s) }
        copWinsToApply == { s \in ids : ~skip(s) /\ At(st.cw, s) = 0 /\ canWin(s) }
    IN  [cw |-> [i \in 1..Len(st.cw) |-> IF (i - 1) \in copWinsToApply THEN 1 ELSE st.cw[i]],
         rw |-> [i \in 1..Len(st.rw) |-> IF (i - 1) \in robberWinsToApply THEN 1 ELSE st.rw[i]],
         steps |-> [i \in 1..Len(st.steps) |->
                       IF (i - 1) \in copWinsToApply THEN RoundOfPass(p) ELSE st.steps[i]],
         passes |-> p,
         ch |-> (robberWinsToApply # {} \/ copWinsToApply # {})]

\* ------------------------------------------------------------ final verdict
UniversalWin(cw, cId) == \A rStart \in 0 .. (N - 1) : At(cw, cId * N + rStart) = 1
\* fault model: the scan without its break, which keeps the last such cId
LastUniversal(cw) ==
    LET visit(found, cId) == IF UniversalWin(cw, cId) THEN cId ELSE found
    IN  FoldRange(visit, -1, 0, configCount)
\* the scan with its break: the first cId that is universally winning, or -1
FirstUniversal(cw) ==
    LET visit(found, cId) ==
            IF found # -1 THEN found ELSE IF UniversalWin(cw, cId) THEN cId ELSE -1
    IN  FoldRange(visit, -1, 0, configCount)

MaxOf(S) == CHOOSE x \in S : \A y \in S : y <= x
WorstCaseSteps(steps, cId) == MaxOf({0} \cup { At(steps, cId * N + r) : r \in 0 .. (N - 1) })
\* fault model: the first universally winning configuration, whatever its depth
BestUniversalFirst(cw, steps) ==
    LET visit(best, cId) ==
            IF best.id = -1 /\ UniversalWin(cw, cId)
            THEN [id |-> cId, min |-> WorstCaseSteps(steps, cId)]
            ELSE best
    IN  FoldRange(visit, [id |-> -1, min |-> BIG_STEPS], 0, configCount)
\* fault model: ties resolved towards the later configuration (<= for <)
BestUniversalLastTie(cw, steps) ==
    LET visit(best, cId) ==
            IF UniversalWin(cw, cId) /\ WorstCaseSteps(steps, cId) <= best.min
            THEN [id |-> cId, min |-> WorstCaseSteps(steps, cId)]
            ELSE best
    IN  FoldRange(visit, [id |-> -1, min |-> BIG_STEPS], 0, configCount)
BestUniversal(cw, steps) ==
    LET visit(best, cId) ==
            IF UniversalWin(cw, cId) /\ WorstCaseSteps(steps, cId) < best.min
            THEN [id |-> cId, min |-> WorstCaseSteps(steps, cId)]
            ELSE best
    IN  FoldRange(visit, [id |-> -1, min |-> BIG_STEPS], 0, configCount)


\* ------------------- k_cops_4.cpp: the worker's atomic operations on a wave
\* st = [cw, rw, sm, out]: the three atomic tables and the worker's next frontier
\* copTurnWins[prevStateId].exchange(1) == 0, then push_back
Exchange(st, prevStateId) ==
    IF At(st.cw, prevStateId) = 0
    THEN [st EXCEPT !.cw = Upd(@, prevStateId, 1),
                    !.out = Append(@, << prevStateId, FALSE >>)]
    ELSE st
\* robberSafeMoves[prevId].fetch_sub(1) == 1, then store and push_back
processRobberMove(st, prevId) ==
    LET old == At(st.sm, prevId)
        st1 == [st EXCEPT !.sm = Upd(@, prevId, (old - 1) % 256)]
    IN  IF old = 1
        THEN [st1 EXCEPT !.rw = Upd(@, prevId, 1),
                         !.out = Append(@, << prevId, TRUE >>)]
        ELSE st1

\* the states one frontier entry touches, in the order of the worker's loops
WaveTargets(packedNode) ==
    LET cId == packedNode[1] \div N
        r == packedNode[1] % N
        row == CsrRow(cId)
        moves == Options(r)
    IN  IF packedNode[2]
        THEN Array([i \in 1..Len(row) |-> row[i] + r])
        ELSE Array([i \in 1..Len(moves) |-> cId * N + moves[i]])
WorkerAtomic(st, packedNode, i) ==
    LET prev == At(WaveTargets(packedNode), i)
    IN  IF packedNode[2] THEN Exchange(st, prev) ELSE processRobberMove(st, prev)

\* static partition of the frontier
ChunkSize(frontierSize, threads) == (frontierSize + threads - 1) \div threads
\* fault model: a chunk that stops one entry short of the next chunk's start
ChunkEndShort(startIdx, chunkSize, frontierSize) ==
    IF startIdx + chunkSize < frontierSize THEN startIdx + chunkSize - 1 ELSE frontierSize
ChunkEnd(startIdx, chunkSize, frontierSize) ==
    IF startIdx + chunkSize < frontierSize THEN startIdx + chunkSize ELSE frontierSize

\* fault model: only the list of worker t reaches the merged frontier
StitchFirstOnly(locals, t) == IF t > Len(locals) THEN << >> ELSE locals[t]
\* the per-worker vectors appended in thread order, from worker t on
RECURSIVE Stitch(_, _)
Stitch(locals, t) == IF t > Len(locals) THEN << >> ELSE locals[t] \o Stitch(locals, t + 1)

\* ------------------------- k_cops_4.cpp: buildTransitions on several threads
RECURSIVE SumCounts(_, _)
SumCounts(counts, c) == IF c = 0 THEN 0 ELSE counts[c] + SumCounts(counts, c - 1)
\* fault model: an inclusive scan, heads[i] counting the row of i itself
PrefixHeadsInclusive(counts) ==
    Array([c \in 1..(Len(counts) + 1) |-> SumCounts(counts, IF c > Len(counts) THEN c - 1 ELSE c)])
\* the merge phase: outTransitionHeads[i] = the sum of transitionCounts[0 .. i-1]
PrefixHeads(counts) == Array([c \in 1..(Len(counts) + 1) |-> SumCounts(counts, c - 1)])
\* the merge phase: the workers' transition vectors appended in thread order
RECURSIVE StitchTransitions(_, _)
StitchTransitions(locals, t) ==
    IF t > Len(locals) THEN << >> ELSE locals[t] \o StitchTransitions(locals, t + 1)
\* allLocalTransitions[tId] when worker tId has run over [startId, endId)
RECURSIVE LocalTransitions(_, _)
LocalTransitions(cId, endId) ==
    IF cId >= endId THEN << >> ELSE TransitionRow(cId) \o LocalTransitions(cId + 1, endId)
\* the workers write disjoint cells (their own vector, transitionCounts[cId] of
\* their own chunk) and read shared data only, so their order does not show
buildTransitions4(threads) ==
    LET chunkSize == ChunkSize(configCount, threads)
        startId(t) == (t - 1) * chunkSize
        spawned(t) == startId(t) < configCount
        endId(t) == IF startId(t) + chunkSize < configCount
                    THEN startId(t) + chunkSize ELSE configCount
        allLocalTransitions ==
            Array([t \in 1..threads |->
                      IF spawned(t) THEN LocalTransitions(startId(t), endId(t)) ELSE << >>])
        transitionCounts ==
            Array([c \in 1..configCount |->
                      IF \E t \in 1..threads : spawned(t) /\ startId(t) <= c - 1 /\ c - 1 < endId(t)
                      THEN Len(TransitionRow(c - 1)) ELSE 0])
    IN  [heads |-> PrefixHeads(transitionCounts),
         transitions |-> StitchTransitions(allLocalTransitions, 1)]

\* the wave loop run by a single worker: every entry of every wave, in order
WaveEntry(st, packedNode) ==
    LET visit(s, i) == WorkerAtomic(s, packedNode, i)
    IN  FoldRange(visit, st, 0, Len(WaveTargets(packedNode)))
RECURSIVE WaveRun(_, _)
WaveRun(st, frontier) ==
    IF frontier = << >> THEN st
    ELSE LET visit(s, q) == WaveEntry(s, At(frontier, q))
             nx == FoldRange(visit, [st EXCEPT !.out = << >>], 0, Len(frontier))
         IN  WaveRun(nx, nx.out)

\* --------------- k_cops_5.cpp: the packed byte and the worker's atomic operations
\* byte & COP_WIN_BIT, and (byte & SAFE_MOVES_MASK) >> SAFE_MOVES_SHIFT
CopWinBit(byte) == byte % (2 * COP_WIN_BIT)
SafeMoves(byte) == ((byte \div 2) * 2) \div (2 ^ SAFE_MOVES_SHIFT)
\* the copWin bits of the whole table
PackedCopWins(gs) == Array([i \in 1..Len(gs) |-> CopWinBit(gs[i])])
PackedSafeMoves(gs) == Array([i \in 1..Len(gs) |-> SafeMoves(gs[i])])

\* initializeCaptures: COP_WIN_BIT for a capture, else the degree shifted into
\* bits 1..7 of a uint8_t; both turn phases of every capture seed the frontier
initializeCaptures5 ==
    [gs |-> [i \in 1..numStates |->
                IF CaughtPacked((i - 1) \div N, (i - 1) % N) THEN COP_WIN_BIT
                ELSE (robberDegrees((i - 1) % N) * (2 ^ SAFE_MOVES_SHIFT)) % 256],
     q  |-> SeedQueue]

\* st = [gs, out]: the table and the worker's next frontier
\* fault model: the push made whatever the old bit was
FetchOrAlways(st, prevStateId) ==
    [st EXCEPT !.gs = Upd(@, prevStateId, At(st.gs, prevStateId) + (1 - CopWinBit(At(st.gs, prevStateId)))),
               !.out = Append(@, << prevStateId, FALSE >>)]
\* fault model: a store of COP_WIN_BIT in place of the fetch_or
FetchOrStore(st, prevStateId) ==
    LET oldVal == At(st.gs, prevStateId)
        st1 == [st EXCEPT !.gs = Upd(@, prevStateId, COP_WIN_BIT)]
    IN  IF CopWinBit(oldVal) = 0
        THEN [st1 EXCEPT !.out = Append(@, << prevStateId, FALSE >>)]
        ELSE st1
\* oldVal = gameStates[prevStateId].fetch_or(COP_WIN_BIT); push when its bit was 0
FetchOr(st, prevStateId) ==
    LET oldVal == At(st.gs, prevStateId)
        st1 == [st EXCEPT !.gs = Upd(@, prevStateId, oldVal + (COP_WIN_BIT - CopWinBit(oldVal)))]
    IN  IF CopWinBit(oldVal) = 0
        THEN [st1 EXCEPT !.out = Append(@, << prevStateId, FALSE >>)]
        ELSE st1
\* fault model: the decrement without its shift
processRobberMoveNoShift(st, prevId) ==
    LET oldVal == At(st.gs, prevId)
        st1 == [st EXCEPT !.gs = Upd(@, prevId, (oldVal - 1) % 256)]
    IN  IF SafeMoves(oldVal) = 1
        THEN [st1 EXCEPT !.out = Append(@, << prevId, TRUE >>)]
        ELSE st1
\* oldVal = gameStates[prevId].fetch_sub(1 << SAFE_MOVES_SHIFT) on a uint8_t; push
\* when the old counter was 1
processRobberMove5(st, prevId) ==
    LET oldVal == At(st.gs, prevId)
        st1 == [st EXCEPT !.gs = Upd(@, prevId, (oldVal - 2 ^ SAFE_MOVES_SHIFT) % 256)]
    IN  IF SafeMoves(oldVal) = 1
        THEN [st1 EXCEPT !.out = Append(@, << prevId, TRUE >>)]
        ELSE st1

\* the previous configurations of cId in the order of the odometer: every tuple
\* of options is sorted and looked up, nothing is deduplicated
PrevConfigs(cId) ==
    LET cops == Record(configs, k, cId)
        opts == Array([i \in 1..k |-> Options(cops[i])])
        total == Stride(opts, 0)
    IN  Array([j \in 1..total |-> Lookup(StdSort(OdometerTuple(opts, j - 1)))])
\* the states one frontier entry touches, in the order of the worker's loops;
\* NOT_FOUND where the search found no configuration
PackTargets(packedNode) ==
    LET cId == packedNode[1] \div N
        r == packedNode[1] % N
        prevs == PrevConfigs(cId)
        moves == Options(r)
    IN  IF packedNode[2]
        THEN Array([i \in 1..Len(prevs) |->
                       IF prevs[i] = NOT_FOUND THEN NOT_FOUND ELSE prevs[i] * N + r])
        ELSE Array([i \in 1..Len(moves) |-> cId * N + moves[i]])
WorkerAtomic5(st, packedNode, i) ==
    LET prev == At(PackTargets(packedNode), i)
    IN  IF packedNode[2]
        THEN IF prev = NOT_FOUND THEN st ELSE FetchOr(st, prev)
        ELSE processRobberMove5(st, prev)

\* the wave loop run by a single worker
PackEntry(st, packedNode) ==
    LET visit(s, i) == WorkerAtomic5(s, packedNode, i)
    IN  FoldRange(visit, st, 0, Len(PackTargets(packedNode)))
RECURSIVE PackRun(_, _)
PackRun(st, frontier) ==
    IF frontier = << >> THEN st
    ELSE LET visit(s, q) == PackEntry(s, At(frontier, q))
             nx == FoldRange(visit, [st EXCEPT !.out = << >>], 0, Len(frontier))
         IN  PackRun(nx, nx.out)

\* ------------------------------------------ history of the frontier pushes
\* entry e has been placed on a frontier once more
Logged(log, e) ==
    [once |-> log.once \cup { e },
     again |-> IF e \in log.once THEN log.again \cup { e } ELSE log.again]
\* the entries of a sequence of pushes, one after the other
LogAll(log, entries) ==
    LET visit(l, i) == Logged(l, At(entries, i))
    IN  FoldRange(visit, log, 0, Len(entries))
\* what a step has appended to a worker's vector
Appended(before, after) == SubSeq(after, Len(before) + 1, Len(after))

\* ------------------------------------------------------------------- inputs
Variants == { "k_cops", "k_cops_2", "k_cops_3", "k_cops_rounds" }
Packed == variant # "k_cops"
Graphs(n) == SUBSET EdgePairs(n)
\* what an out-of-bounds read of the adjacency table can meet: vertex-valued
\* bytes closed by a sentinel byte, or (the empty tail) the end of readable memory
Tails(n) ==
    { t \o << SENTINEL >> : t \in UNION { [1..m -> Vertices(n)] : m \in 0..MaxTail } }
        \cup { << >> }

\* fault model: the limit test off by one
TooManyCopsLax(kk) == kk > MAX_COPS + 1
\* generateCopConfigs: if (k > MAX_COPS)
TooManyCops(kk) == kk > MAX_COPS
\* a cop count above the limit of generateCopConfigs, for the solvers that
\* have the limit
LimitCops(v) == IF v = "k_cops" THEN { } ELSE { MAX_COPS + 1 }
\* the graph file, the cop count and what the build and the machine contribute
InputsFrom(variantSet, maxN, maxK, threadSet) ==
    /\ N \in 0..maxN
    /\ variant \in variantSet
    /\ k \in (0..maxK) \cup LimitCops(variant)
    /\ g \in Graphs(N)
    /\ numThreads \in threadSet
    /\ heapTail \in (IF variant = "k_cops" THEN { << SENTINEL >> } ELSE Tails(N))
\* nothing allocated, nothing computed
Fresh ==
    /\ maxDegree = 0
    /\ edges = << >>
    /\ configCount = 0
    /\ configs = << >>
    /\ current = << >>
    /\ offset = 0
    /\ copConfigs = << >>
    /\ copTransitions = << >>
    /\ transitionHeads = << >>
    /\ transitions = << >>
    /\ copTurnWins = << >>
    /\ robberTurnWins = << >>
    /\ robberSafeMoves = << >>
    /\ stepsToWin = << >>
    /\ workQueue = << >>
    /\ qReadHead = 0
    /\ passes = 0
    /\ changed = TRUE
    /\ winningStartConfigId = -1
    /\ overallMinWorstCase = BIG_STEPS
    /\ currentFrontier = << >>
    /\ localNextFrontiers = << >>
    /\ cursor = << >>
    /\ currCId = 0
    /\ currRobber = -1
    /\ pathFile = << >>
    /\ exitCode = -1
    /\ gameStates = << >>
    /\ sharedIndex = 0
    /\ pushLog = [once |-> { }, again |-> { }]
    /\ expandedBy = << >>
    /\ probe = [cId |-> 0, j |-> 0, nextId |-> 0, tempMoves |-> << >>]
\* the process at the call of solveCopsAndRobbers, reached by a well-formed
\* command line
InitWith(variantSet, maxN, maxK, threadSet) ==
    /\ InputsFrom(variantSet, maxN, maxK, threadSet)
    /\ Fresh
    /\ argc = 3
    /\ kNumeric = TRUE
    /\ pc = "start"

Init == InitWith(Variants, MaxN, MaxK, {1})
WaveInit == InitWith({"k_cops_4"}, WaveMaxN, WaveMaxK, 1..MaxThreads)

\* ------------------------------------------------------------------ actions
\* solveCopsAndRobbers: the N == 0 return
RejectEmpty ==
    /\ pc = "start"
    /\ N = 0
    /\ pc' = "error"
    /\ UNCHANGED << probeVars, histVars, inputVars, mainVars, packVars, traceVars, adjVars, genVars, vecVars, csrVars, tableVars, loopVars,
                    verdictVars, waveVars >>

\* STEP 1 and the head of generateCopConfigs (count, allocation, current = 0..0)
BuildAdjacency ==
    /\ pc = "start"
    /\ N # 0
    /\ Packed
    /\ LET adj == AdjacencyList(N, g)
       IN  /\ maxDegree' = adj.maxDegree
           /\ edges' = adj.edges
    /\ IF TooManyCops(k)
       THEN /\ configCount' = 0
            /\ pc' = "error"
            /\ UNCHANGED current
       ELSE /\ configCount' = NumConfigs(k, N)
            /\ current' = Fill(k, 0)
            /\ pc' = "gen"
    /\ offset' = 0
    /\ configs' = << >>
    /\ UNCHANGED << probeVars, histVars, inputVars, mainVars, packVars, traceVars, vecVars, csrVars, tableVars, loopVars, verdictVars,
                    waveVars >>

\* generateCopConfigs: one turn of the while(true) loop
GenStep ==
    /\ pc = "gen"
    /\ Packed
    /\ configs' = configs \o current
    /\ offset' = offset + k
    /\ LET p == RightmostBelow(current, k - 1, N)
       IN  IF p < 0
           THEN /\ pc' = (IF variant = "k_cops_5" THEN "init" ELSE "trans")
                /\ current' = current
           ELSE /\ pc' = "gen"
                /\ current' = NextConfig(current, p)
    /\ UNCHANGED << probeVars, histVars, inputVars, mainVars, packVars, traceVars, adjVars, configCount, vecVars, csrVars, tableVars,
                    loopVars, verdictVars, waveVars >>

\* k_cops.cpp: steps 1 and 2 (adjacency vectors are adjVec; the recursive enumerator)
GenRecursive ==
    /\ pc = "start"
    /\ N # 0
    /\ ~Packed
    /\ copConfigs' = generateCopConfigsRec(k, N, 0, << >>)
    /\ configCount' = Len(copConfigs')
    /\ pc' = "trans"
    /\ UNCHANGED << probeVars, histVars, inputVars, mainVars, packVars, traceVars, adjVars, configs, current, offset, copTransitions,
                    csrVars, tableVars, loopVars, verdictVars, waveVars >>

\* the rows a step reads to their sentinel: buildTransitions reads the row of every
\* cop of every configuration, initializeCaptures (k_cops_3.cpp, k_cops_4.cpp) the
\* row of every vertex
TransFault == Packed /\ k >= 1 /\ RowFault
InitFault == variant \in { "k_cops_3", "k_cops_4", "k_cops_5" } /\ RowFault

\* an unbounded row read leaves readable memory: the process is killed
ReadFault ==
    /\ \/ pc = "trans" /\ TransFault
       \/ pc = "init" /\ InitFault
    /\ pc' = "crash"
    /\ UNCHANGED << probeVars, histVars, inputVars, mainVars, packVars, traceVars, adjVars, genVars, vecVars, csrVars, tableVars, loopVars,
                    verdictVars, waveVars >>

\* STEP 3 of the CSR variants
BuildTransitions ==
    /\ pc = "trans"
    /\ Packed
    /\ ~TransFault
    /\ LET b == IF variant = "k_cops_4" THEN buildTransitions4(numThreads) ELSE buildTransitions
       IN  /\ transitionHeads' = b.heads
           /\ transitions' = b.transitions
    /\ pc' = "init"
    /\ UNCHANGED << probeVars, histVars, inputVars, mainVars, packVars, traceVars, adjVars, genVars, vecVars, tableVars, loopVars,
                    verdictVars, waveVars >>

\* k_cops.cpp: step 3
teamMoves(n, gr, cc) ==
    [id \in 1..Len(cc) |-> generateTeamMoves(n, gr, cc, cc[id], 0, << >>, << >>)]
BuildTeamMoves ==
    /\ pc = "trans"
    /\ ~Packed
    /\ copTransitions' = teamMoves(N, g, copConfigs)
    /\ pc' = "init"
    /\ UNCHANGED << probeVars, histVars, inputVars, mainVars, packVars, traceVars, adjVars, genVars, copConfigs, csrVars, tableVars,
                    loopVars, verdictVars, waveVars >>

\* allocation of the state tables and the capture initialization
InitializeCaptures ==
    /\ pc = "init"
    /\ variant # "k_cops_5"
    /\ ~InitFault
    /\ CASE variant = "k_cops" ->
              LET i == initializeCaptures1(copConfigs)
              IN  /\ copTurnWins' = i.cw
                  /\ robberTurnWins' = i.rw
                  /\ robberSafeMoves' = i.sm
                  /\ UNCHANGED << workQueue, stepsToWin, currentFrontier >>
         [] variant = "k_cops_2" ->
              LET i == initializeCaptures2
              IN  /\ copTurnWins' = i.cw
                  /\ robberTurnWins' = i.rw
                  /\ UNCHANGED << robberSafeMoves, workQueue, stepsToWin, currentFrontier >>
         [] variant = "k_cops_3" ->
              LET i == initializeCaptures3
              IN  /\ copTurnWins' = i.cw
                  /\ robberTurnWins' = i.rw
                  /\ robberSafeMoves' = i.sm
                  /\ workQueue' = i.q
                  /\ UNCHANGED << stepsToWin, currentFrontier >>
         [] variant = "k_cops_4" ->
              LET i == initializeCaptures3
              IN  /\ copTurnWins' = i.cw
                  /\ robberTurnWins' = i.rw
                  /\ robberSafeMoves' = i.sm
                  /\ currentFrontier' = i.q
                  /\ UNCHANGED << stepsToWin, workQueue >>
         [] variant = "k_cops_rounds" ->
              LET i == initializeCaptures2
              IN  /\ copTurnWins' = i.cw
                  /\ robberTurnWins' = i.rw
                  /\ stepsToWin' = [s \in 1..numStates |-> IF i.cw[s] = 1 THEN 0 ELSE -1]
                  /\ UNCHANGED << robberSafeMoves, workQueue, currentFrontier >>
    /\ qReadHead' = 0
    /\ passes' = 0
    /\ changed' = TRUE
    /\ pc' = "solve"
    /\ pushLog' = (IF variant = "k_cops_4" THEN LogAll(pushLog, SeedQueue) ELSE pushLog)
    /\ UNCHANGED expandedBy
    /\ UNCHANGED << probeVars, inputVars, mainVars, packVars, traceVars, adjVars, genVars, vecVars,
                    csrVars, verdictVars, localNextFrontiers, cursor >>

\* one pass of the scan loops (k_cops.cpp, k_cops_2.cpp, k_cops_rounds.cpp);
\* for k_cops_2.cpp `changed` stands for newWinsThisPass != 0
Pass ==
    /\ pc = "solve"
    /\ variant \in { "k_cops", "k_cops_2", "k_cops_rounds" }
    /\ changed
    /\ CASE variant = "k_cops" ->
              LET st == ScanPass1(copTransitions, copTurnWins, robberTurnWins, robberSafeMoves)
              IN  /\ copTurnWins' = st.cw
                  /\ robberTurnWins' = st.rw
                  /\ robberSafeMoves' = st.sm
                  /\ changed' = st.ch
                  /\ passes' = passes + 1
                  /\ UNCHANGED stepsToWin
         [] variant = "k_cops_2" ->
              LET st == ScanPass2(copTurnWins, robberTurnWins)
              IN  /\ copTurnWins' = st.cw
                  /\ robberTurnWins' = st.rw
                  /\ changed' = (st.nw # 0)
                  /\ passes' = passes + 1
                  /\ UNCHANGED << robberSafeMoves, stepsToWin >>
         [] variant = "k_cops_rounds" ->
              LET st == RoundsPass([cw |-> copTurnWins, rw |-> robberTurnWins,
                                    steps |-> stepsToWin, passes |-> passes, ch |-> FALSE])
              IN  /\ copTurnWins' = st.cw
                  /\ robberTurnWins' = st.rw
                  /\ stepsToWin' = st.steps
                  /\ changed' = st.ch
                  /\ passes' = st.passes
                  /\ UNCHANGED robberSafeMoves
    /\ UNCHANGED << probeVars, histVars, inputVars, mainVars, packVars, traceVars, pc, adjVars, genVars, vecVars, csrVars, workQueue,
                    qReadHead, verdictVars, waveVars >>

\* k_cops_3.cpp: one turn of while (qReadHead < qWriteHead)
QueuePop ==
    /\ pc = "solve"
    /\ variant = "k_cops_3"
    /\ qReadHead < Len(workQueue)
    /\ LET st == QueueStep([cw |-> copTurnWins, rw |-> robberTurnWins,
                            sm |-> robberSafeMoves, q |-> workQueue, rd |-> qReadHead])
       IN  /\ copTurnWins' = st.cw
           /\ robberTurnWins' = st.rw
           /\ robberSafeMoves' = st.sm
           /\ workQueue' = st.q
           /\ qReadHead' = st.rd
    /\ UNCHANGED << probeVars, histVars, inputVars, mainVars, packVars, traceVars, pc, adjVars, genVars, vecVars, csrVars, stepsToWin,
                    passes, changed, verdictVars, waveVars >>

\* k_cops_4.cpp: the head of one wave, up to the spawning of the workers
WaveSpawn ==
    /\ pc = "solve"
    /\ variant = "k_cops_4"
    /\ currentFrontier # << >>
    /\ passes' = passes + 1
    /\ LET frontierSize == Len(currentFrontier)
           chunkSize == ChunkSize(frontierSize, numThreads)
           startIdx(t) == (t - 1) * chunkSize
       IN  cursor' = [t \in 1..numThreads |->
                        IF startIdx(t) >= frontierSize
                        THEN [q |-> frontierSize, endIdx |-> frontierSize, i |-> 0]
                        ELSE [q |-> startIdx(t),
                              endIdx |-> ChunkEnd(startIdx(t), chunkSize, frontierSize),
                              i |-> 0]]
    /\ localNextFrontiers' = [t \in 1..numThreads |-> << >>]
    /\ pc' = "wave"
    /\ expandedBy' = Fill(Len(currentFrontier), << >>)
    /\ UNCHANGED << probeVars, pushLog, inputVars, mainVars, packVars, traceVars, adjVars, genVars, vecVars, csrVars, tableVars, workQueue,
                    qReadHead, changed, verdictVars, currentFrontier >>

\* history: worker t starts on the entry its cursor points at
Taken(log, cur, t) ==
    IF cur.i = 0 THEN [log EXCEPT ![cur.q + 1] = Append(@, t)] ELSE log
\* k_cops_4.cpp: worker t performs its next atomic operation
WorkerStep(t) ==
    /\ pc = "wave"
    /\ variant = "k_cops_4"
    /\ cursor[t].q < cursor[t].endIdx
    /\ LET packedNode == At(currentFrontier, cursor[t].q)
           count == Len(WaveTargets(packedNode))
           st == WorkerAtomic([cw |-> copTurnWins, rw |-> robberTurnWins,
                               sm |-> robberSafeMoves, out |-> localNextFrontiers[t]],
                              packedNode, cursor[t].i)
       IN  /\ copTurnWins' = st.cw
           /\ robberTurnWins' = st.rw
           /\ robberSafeMoves' = st.sm
           /\ pushLog' = LogAll(pushLog, Appended(localNextFrontiers[t], st.out))
           /\ expandedBy' = Taken(expandedBy, cursor[t], t)
           /\ localNextFrontiers' = [localNextFrontiers EXCEPT ![t] = st.out]
           /\ cursor' = [cursor EXCEPT ![t] =
                            IF cursor[t].i + 1 >= count
                            THEN [@ EXCEPT !.q = @ + 1, !.i = 0]
                            ELSE [@ EXCEPT !.i = @ + 1]]
    /\ UNCHANGED << probeVars, inputVars, mainVars, packVars, traceVars, pc, adjVars, genVars, vecVars, csrVars, stepsToWin,
                    loopVars, verdictVars, currentFrontier >>

\* k_cops_4.cpp: the joins and the merge phase
WaveMerge ==
    /\ pc = "wave"
    /\ variant = "k_cops_4"
    /\ \A t \in 1..numThreads : cursor[t].q >= cursor[t].endIdx
    /\ currentFrontier' = Stitch(localNextFrontiers, 1)
    /\ pc' = "solve"
    /\ expandedBy' = << >>
    /\ UNCHANGED << probeVars, pushLog, inputVars, mainVars, packVars, traceVars, adjVars, genVars, vecVars, csrVars, tableVars, loopVars,
                    verdictVars, localNextFrontiers, cursor >>

\* k_cops_5.cpp: allocation of gameStates and the capture initialization
InitializeCaptures5 ==
    /\ pc = "init"
    /\ variant = "k_cops_5"
    /\ ~InitFault
    /\ LET i == initializeCaptures5
       IN  /\ gameStates' = i.gs
           /\ pushLog' = LogAll(pushLog, i.q)
           /\ UNCHANGED expandedBy
           /\ currentFrontier' = i.q
    /\ passes' = 0
    /\ pc' = "solve"
    /\ UNCHANGED << probeVars, inputVars, mainVars, traceVars, adjVars, genVars, vecVars, csrVars,
                    tableVars, workQueue, qReadHead, changed, verdictVars,
                    localNextFrontiers, cursor, sharedIndex >>

\* k_cops_5.cpp: the head of one wave: sharedIndex{0}, the workers spawned
WaveSpawn5 ==
    /\ pc = "solve"
    /\ variant = "k_cops_5"
    /\ currentFrontier # << >>
    /\ passes' = passes + 1
    /\ sharedIndex' = 0
    /\ cursor' = [t \in 1..numThreads |-> [q |-> 0, endIdx |-> 0, i |-> 0, done |-> FALSE]]
    /\ localNextFrontiers' = [t \in 1..numThreads |-> << >>]
    /\ pc' = "wave"
    /\ expandedBy' = Fill(Len(currentFrontier), << >>)
    /\ UNCHANGED << probeVars, pushLog, inputVars, mainVars, traceVars, adjVars, genVars, vecVars, csrVars,
                    tableVars, workQueue, qReadHead, changed, verdictVars, currentFrontier,
                    gameStates >>

\* k_cops_5.cpp: worker t asks the dispenser for its next batch, and leaves its
\* loop when the frontier is used up
GrabBatch(t) ==
    /\ pc = "wave"
    /\ variant = "k_cops_5"
    /\ ~cursor[t].done
    /\ cursor[t].q >= cursor[t].endIdx
    /\ sharedIndex' = sharedIndex + BatchSize
    /\ LET startIdx == sharedIndex
           frontierSize == Len(currentFrontier)
       IN  cursor' = [cursor EXCEPT ![t] =
                        IF startIdx >= frontierSize
                        THEN [@ EXCEPT !.done = TRUE]
                        ELSE [q |-> startIdx,
                              endIdx |-> IF startIdx + BatchSize < frontierSize
                                         THEN startIdx + BatchSize ELSE frontierSize,
                              i |-> 0, done |-> FALSE]]
    /\ UNCHANGED << probeVars, histVars, inputVars, mainVars, traceVars, pc, adjVars, genVars, vecVars, csrVars,
                    tableVars, loopVars, verdictVars, currentFrontier, localNextFrontiers,
                    gameStates >>

\* k_cops_5.cpp: worker t performs its next atomic operation
WorkerStep5(t) ==
    /\ pc = "wave"
    /\ variant = "k_cops_5"
    /\ cursor[t].q < cursor[t].endIdx
    /\ LET packedNode == At(currentFrontier, cursor[t].q)
           count == Len(PackTargets(packedNode))
           st == WorkerAtomic5([gs |-> gameStates, out |-> localNextFrontiers[t]],
                               packedNode, cursor[t].i)
       IN  /\ gameStates' = st.gs
           /\ pushLog' = LogAll(pushLog, Appended(localNextFrontiers[t], st.out))
           /\ expandedBy' = Taken(expandedBy, cursor[t], t)
           /\ localNextFrontiers' = [localNextFrontiers EXCEPT ![t] = st.out]
           /\ cursor' = [cursor EXCEPT ![t] =
                            IF cursor[t].i + 1 >= count
                            THEN [@ EXCEPT !.q = @ + 1, !.i = 0]
                            ELSE [@ EXCEPT !.i = @ + 1]]
    /\ UNCHANGED << probeVars, inputVars, mainVars, traceVars, pc, adjVars, genVars, vecVars, csrVars,
                    tableVars, loopVars, verdictVars, currentFrontier, sharedIndex >>

\* k_cops_5.cpp: the joins and the merge by thread offsets
WaveMerge5 ==
    /\ pc = "wave"
    /\ variant = "k_cops_5"
    /\ \A t \in 1..numThreads : cursor[t].done
    /\ currentFrontier' = Stitch(localNextFrontiers, 1)
    /\ pc' = "solve"
    /\ expandedBy' = << >>
    /\ UNCHANGED << probeVars, pushLog, inputVars, mainVars, packVars, traceVars, adjVars, genVars, vecVars,
                    csrVars, tableVars, loopVars, verdictVars, localNextFrontiers, cursor >>

\* the retrograde loop has ended
LoopDone ==
    CASE variant = "k_cops_3" -> qReadHead >= Len(workQueue)
      [] variant \in { "k_cops_4", "k_cops_5" } -> currentFrontier = << >>
      [] OTHER -> ~changed

\* the final verdict scan
Verdict ==
    /\ pc = "solve"
    /\ LoopDone
    /\ IF variant = "k_cops_rounds"
       THEN LET b == BestUniversal(copTurnWins, stepsToWin)
            IN  /\ winningStartConfigId' = b.id
                /\ overallMinWorstCase' = b.min
       ELSE /\ winningStartConfigId' =
                   FirstUniversal(IF variant = "k_cops_5" THEN PackedCopWins(gameStates)
                                  ELSE copTurnWins)
            /\ UNCHANGED overallMinWorstCase
    /\ pc' = "done"
    /\ UNCHANGED << probeVars, histVars, inputVars, mainVars, packVars, traceVars, adjVars, genVars, vecVars, csrVars, tableVars, loopVars,
                    waveVars >>

\* ------------------------- k_cops_rounds.cpp: extraction of the game path
\* the first robber start with the largest stepsToWin against configuration cId
BestRobberStart(cId) ==
    LET visit(best, r) ==
            IF At(stepsToWin, cId * N + r) > best.maxSteps
            THEN [r |-> r, maxSteps |-> At(stepsToWin, cId * N + r)]
            ELSE best
    IN  FoldRange(visit, [r |-> -1, maxSteps |-> -1], 0, N).r

\* isValidCopMove and worstCaseRobberResponse of the candidate nextCId
CopMoveEval(nextCId, r) ==
    IF CaughtPacked(nextCId, r)
    THEN [valid |-> TRUE, worst |-> 0]
    ELSE LET rEdges == getEdges(r)
             visit(ev, e) ==
                 IF ~ev.valid THEN ev
                 ELSE IF At(copTurnWins, nextCId * N + rEdges[e]) = 0
                      THEN [ev EXCEPT !.valid = FALSE]
                      ELSE IF At(stepsToWin, nextCId * N + rEdges[e]) > ev.worst
                           THEN [ev EXCEPT !.worst = At(stepsToWin, nextCId * N + rEdges[e])]
                           ELSE ev
         IN  FoldRange(visit, [valid |-> TRUE, worst |-> -1], 1, Len(rEdges) + 1)

\* bestNextCId: the first CSR successor with the least worstCaseRobberResponse
BestCopMove(cId, r) ==
    LET row == CsrRow(cId)
        visit(best, i) ==
            LET ev == CopMoveEval(row[i] \div N, r)
            IN  IF ev.valid /\ ev.worst < best.min
                THEN [id |-> row[i] \div N, min |-> ev.worst]
                ELSE best
    IN  FoldRange(visit, [id |-> cId, min |-> BIG_STEPS], 1, Len(row) + 1).id

\* bestNextRobber: the first entry of the robber's row that is cop-winning with
\* the largest stepsToWin; currRobber when the row holds none
BestRobberMove(cId, r) ==
    LET rEdges == getEdges(r)
        visit(best, e) ==
            IF /\ At(copTurnWins, cId * N + rEdges[e]) # 0
               /\ At(stepsToWin, cId * N + rEdges[e]) > best.maxStepsR
            THEN [r |-> rEdges[e], maxStepsR |-> At(stepsToWin, cId * N + rEdges[e])]
            ELSE best
    IN  FoldRange(visit, [r |-> r, maxStepsR |-> -1], 1, Len(rEdges) + 1).r

PathLine(cId, r, tag) == << Record(configs, k, cId), r, tag >>

\* WIN branch: the start of the path, the reported configuration against the
\* robber start of largest depth
TraceStart ==
    /\ pc = "done"
    /\ variant = "k_cops_rounds"
    /\ winningStartConfigId # -1
    /\ currCId' = winningStartConfigId
    /\ currRobber' = BestRobberStart(winningStartConfigId)
    /\ pathFile' = << >>
    /\ pc' = "trace"
    /\ UNCHANGED << probeVars, histVars, inputVars, mainVars, packVars, adjVars, genVars, vecVars, csrVars,
                    tableVars, loopVars, verdictVars, waveVars >>

\* one turn of while (true): the cops' line, the cops' move, the robber's line
\* and the robber's move, or the line of the capture and the break
TraceTurn ==
    /\ pc = "trace"
    /\ Len(pathFile) < MaxPathLines
    /\ IF CaughtPacked(currCId, currRobber)
       THEN /\ pathFile' = Append(pathFile, PathLine(currCId, currRobber, "Game Over - Captured!"))
            /\ pc' = "traced"
            /\ UNCHANGED << currCId, currRobber >>
       ELSE \E bestNextCId \in { BestCopMove(currCId, currRobber) } :
              /\ currCId' = bestNextCId
              /\ IF CaughtPacked(bestNextCId, currRobber)
                 THEN /\ pathFile' = pathFile \o
                            << PathLine(currCId, currRobber, "Cop's Turn"),
                               PathLine(bestNextCId, currRobber, "Game Over - Captured!") >>
                      /\ pc' = "traced"
                      /\ UNCHANGED currRobber
                 ELSE /\ pathFile' = pathFile \o
                            << PathLine(currCId, currRobber, "Cop's Turn"),
                               PathLine(bestNextCId, currRobber, "Robber's Turn") >>
                      /\ currRobber' = BestRobberMove(bestNextCId, currRobber)
                      /\ pc' = "trace"
    /\ UNCHANGED << probeVars, histVars, inputVars, mainVars, packVars, adjVars, genVars, vecVars, csrVars,
                    tableVars, loopVars, verdictVars, waveVars >>

\* ------------------------------------------------------------------- main
\* the argument test: argc != 3, and argc < 3 in k_cops_rounds.cpp
BadArgc == IF variant = "k_cops_rounds" THEN argc < 3 ELSE argc # 3
\* the command line is the one the usage text asks for
WellFormed == argc = 3 /\ kNumeric

\* main up to the call of solveCopsAndRobbers: the usage return, then
\* std::stoi(argv[2]), whose exception nothing catches
MainArgs ==
    /\ pc = "main"
    /\ IF BadArgc
       THEN /\ pc' = "exit"
            /\ exitCode' = 1
       ELSE IF ~kNumeric
       THEN /\ pc' = "exit"
            /\ exitCode' = ABORTED
       ELSE /\ pc' = "start"
            /\ UNCHANGED exitCode
    /\ UNCHANGED << probeVars, histVars, inputVars, argc, kNumeric, packVars, traceVars, adjVars, genVars, vecVars,
                    csrVars, tableVars, loopVars, verdictVars, waveVars >>

\* solveCopsAndRobbers has returned (after its error message, after the verdict,
\* or after the path of the WIN branch): return 0
Returned ==
    \/ pc = "error"
    \/ pc = "traced"
    \/ pc = "done" /\ ~(variant = "k_cops_rounds" /\ winningStartConfigId # -1)
MainReturn ==
    /\ Returned
    /\ pc' = "exit"
    /\ exitCode' = 0
    /\ UNCHANGED << probeVars, histVars, inputVars, argc, kNumeric, packVars, traceVars, adjVars, genVars, vecVars,
                    csrVars, tableVars, loopVars, verdictVars, waveVars >>

Next ==
    \/ RejectEmpty
    \/ BuildAdjacency
    \/ GenStep
    \/ GenRecursive
    \/ ReadFault
    \/ BuildTransitions
    \/ BuildTeamMoves
    \/ InitializeCaptures
    \/ Pass
    \/ QueuePop
    \/ Verdict
    \/ TraceStart
    \/ TraceTurn

Spec == Init /\ [][Next]_vars

\* k_cops_4.cpp alone, its workers interleaved at the grain of one atomic operation
NextWave ==
    \/ RejectEmpty
    \/ BuildAdjacency
    \/ GenStep
    \/ ReadFault
    \/ BuildTransitions
    \/ InitializeCaptures
    \/ WaveSpawn
    \/ \E t \in 1..numThreads : WorkerStep(t)
    \/ WaveMerge
    \/ Verdict

SpecWave == WaveInit /\ [][NextWave]_vars

\* the five solvers side by side
InitAll == Init \/ WaveInit
NextAll == Next \/ NextWave
SpecAll == InitAll /\ [][NextAll]_vars

\* k_cops_5.cpp alone, its workers interleaved at the grain of one atomic operation
PackInit == InitWith({"k_cops_5"}, PackMaxN, PackMaxK, 1..MaxThreads)
NextPack ==
    \/ RejectEmpty
    \/ BuildAdjacency
    \/ GenStep
    \/ ReadFault
    \/ InitializeCaptures5
    \/ WaveSpawn5
    \/ \E t \in 1..numThreads : GrabBatch(t)
    \/ \E t \in 1..numThreads : WorkerStep5(t)
    \/ WaveMerge5
    \/ Verdict
SpecPack == PackInit /\ [][NextPack]_vars

\* the three work-list solvers side by side on the same inputs
InitSolvers ==
    \/ InitWith({"k_cops_3", "k_cops_5"}, WaveMaxN, WaveMaxK, {1})
    \/ WaveInit
    \/ PackInit
NextSolvers ==
    \/ RejectEmpty
    \/ BuildAdjacency
    \/ GenStep
    \/ ReadFault
    \/ BuildTransitions
    \/ InitializeCaptures
    \/ QueuePop
    \/ WaveSpawn
    \/ \E t \in 1..numThreads : WorkerStep(t)
    \/ WaveMerge
    \/ InitializeCaptures5
    \/ WaveSpawn5
    \/ \E t \in 1..numThreads : GrabBatch(t)
    \/ \E t \in 1..numThreads : WorkerStep5(t)
    \/ WaveMerge5
    \/ Verdict
SpecSolvers == InitSolvers /\ [][NextSolvers]_vars

\* the processes from their command line to their exit status
InitMain ==
    /\ InputsFrom(Variants, MainMaxN, MainMaxK, {1})
    /\ Fresh
    /\ argc \in 1..MaxArgc
    /\ kNumeric \in BOOLEAN
    /\ pc = "main"
NextMain == MainArgs \/ MainReturn \/ Next
SpecMain == InitMain /\ [][NextMain]_vars


\* buildTransitions of the CSR variants, one turn of its odometer loop at a time
LookupMaxN == 3
LookupMaxK == 2
\* the values of a byte behind the table: a vertex number, or n for the values
\* that are neither a vertex number nor the sentinel
HeapBytes(n) == 0 .. n
RawTails(n) ==
    { t \o << SENTINEL >> : t \in UNION { [1..m -> HeapBytes(n)] : m \in 0..MaxTail } }
        \cup { << >> }
InitLookup ==
    /\ N \in 0..LookupMaxN
    /\ variant = "k_cops_3"
    /\ k \in 0..LookupMaxK
    /\ g \in Graphs(N)
    /\ numThreads = 1
    /\ heapTail \in RawTails(N)
    /\ Fresh
    /\ argc = 3
    /\ kNumeric = TRUE
    /\ pc = "start"
\* one turn of while (true): the tuple of the odometer is sorted and searched,
\* nextId * N is pushed, the odometer advances; when it has wrapped, the row of
\* cId is sorted, deduplicated and appended
LookupStep ==
    /\ pc = "trans"
    /\ Packed
    /\ ~TransFault
    /\ LET cId == probe.cId
           cops == Record(configs, k, cId)
           opts == Array([i \in 1..k |-> Options(cops[i])])
           nextId == Lookup(StdSort(OdometerTuple(opts, probe.j)))
           tempMoves == Append(probe.tempMoves, nextId * N)
           wrapped == probe.j + 1 >= Stride(opts, 0)
       IN  /\ probe' = IF wrapped
                       THEN [cId |-> cId + 1, j |-> 0, nextId |-> nextId, tempMoves |-> << >>]
                       ELSE [cId |-> cId, j |-> probe.j + 1, nextId |-> nextId,
                             tempMoves |-> tempMoves]
           /\ transitions' = (IF wrapped THEN transitions \o Unique(tempMoves) ELSE transitions)
           /\ transitionHeads' =
                  (IF wrapped
                   THEN (IF cId = 0 THEN << 0 >> ELSE transitionHeads)
                            \o << Len(transitions') >>
                   ELSE transitionHeads)
           /\ pc' = (IF wrapped /\ cId + 1 >= configCount THEN "init" ELSE "trans")
    /\ UNCHANGED << histVars, inputVars, mainVars, packVars, traceVars, adjVars, genVars, vecVars,
                    tableVars, loopVars, verdictVars, waveVars >>
NextLookup ==
    \/ RejectEmpty
    \/ BuildAdjacency
    \/ GenStep
    \/ ReadFault
    \/ LookupStep
SpecLookup == InitLookup /\ [][NextLookup]_vars


\* k_cops_5 on graphs with a vertex of more than 127 neighbours: the star whose
\* centre is the last vertex, with any edges among its first WideCore leaves
WideN == 129
WideCore == 3
Star(n) == { << i, n - 1 >> : i \in 0 .. (n - 2) }
WideGraphs(n) == { Star(n) \cup x : x \in SUBSET EdgePairs(WideCore) }
WideTails ==
    { t \o << SENTINEL >> : t \in UNION { [1..m -> Vertices(WideCore)] : m \in 0..MaxTail } }
        \cup { << >> }
InitWide ==
    /\ N = WideN
    /\ variant = "k_cops_5"
    /\ k = 0
    /\ g \in WideGraphs(N)
    /\ numThreads \in 1..MaxThreads
    /\ heapTail \in WideTails
    /\ Fresh
    /\ argc = 3
    /\ kNumeric = TRUE
    /\ pc = "start"
NextWide ==
    \/ BuildAdjacency
    \/ GenStep
    \/ ReadFault
    \/ InitializeCaptures5
SpecWide == InitWide /\ [][NextWide]_vars


\* ============================================================ properties
\* ------------------------------------------------ reference notions (graph)
ClosedNbhd(v) == NeighbourSet(N, g, v) \cup {v}
Multisets(kk, n) == { c \in [1..kk -> Vertices(n)] : \A i \in 1..(kk - 1) : c[i] <= c[i + 1] }
LexBefore(a, b) ==
    \E i \in 1..Len(a) : a[i] < b[i] /\ \A j \in 1..(i - 1) : a[j] = b[j]
RECURSIVE RefBinom(_, _)
RefBinom(n, r) ==
    IF r = 0 THEN 1 ELSE IF n = 0 THEN 0 ELSE RefBinom(n - 1, r - 1) + RefBinom(n - 1, r)
\* the rank of a sorted multiset among all sorted multisets
RefId(c) == Cardinality({ d \in Multisets(k, N) : LexBefore(d, c) })
ConfigAt(cId) == IF Packed THEN Record(configs, k, cId) ELSE copConfigs[cId + 1]
\* the team moves of a configuration: each cop stays or crosses one edge
MoveTuples(cId) ==
    { t \in [1..k -> Vertices(N)] : \A i \in 1..k : t[i] \in ClosedNbhd(ConfigAt(cId)[i]) }
RefSuccIds(cId) == { RefId(StdSort(t)) : t \in MoveTuples(cId) }

Built == pc \in { "init", "solve", "wave", "done" }
Generated == pc \in { "trans", "init", "solve", "wave", "done" }

\* every read of an adjacency row meets a sentinel inside the table, so no byte
\* outside the allocation is touched
ReadsInBounds ==
    \A v \in Vertices(N) :
        \E j \in (v * maxDegree)..(Len(edges) - 1) : At(edges, j) = SENTINEL

\* ------------------------------------------ reference notions (the game)
StateIds == 0 .. (configCount * N - 1)
CapturedIds == { s \in StateIds : Caught(ConfigAt(s \div N), s % N) }
\* succ[cId + 1]: the ids of the team moves of configuration cId
RefSucc == Array([c \in 1..configCount |-> RefSuccIds(c - 1)])
\* one round of backward induction.  W.c: positions with the cops to move from
\* which they force a capture; W.r: the same with the robber to move
RefStep(W, succ) ==
    [c |-> W.c \cup { s \in StateIds :
                        \E d \in succ[(s \div N) + 1] : (d * N + (s % N)) \in W.r },
     r |-> W.r \cup { s \in StateIds :
                        \A v \in ClosedNbhd(s % N) : ((s \div N) * N + v) \in W.c }]
RECURSIVE RefFix(_, _)
RefFix(W, succ) == LET nx == RefStep(W, succ) IN IF nx = W THEN W ELSE RefFix(nx, succ)
RefWin == RefFix([c |-> CapturedIds, r |-> CapturedIds], RefSucc)

\* C1: after the solver has ended, copWin(C, r) = 1 exactly when the cops, moving
\* first from C, can force the capture of the robber at r in finitely many
\* moves (stated for the runs whose adjacency reads stay inside the table).
C1_CopWinIffStrategy ==
    (pc = "done" /\ (variant = "k_cops" \/ ReadsInBounds)) =>
        LET win == RefWin
        IN  \A s \in StateIds : (At(copTurnWins, s) = 1) <=> (s \in win.c)

\* C2: the verdict is WIN exactly when some configuration wins against every
\* robber start, otherwise LOSS; the solvers without depth tracking report the
\* first such configuration in lexicographic order.
UniversalIds ==
    { cId \in 0..(configCount - 1) :
        \A r \in Vertices(N) : At(copTurnWins, cId * N + r) = 1 }
C2_VerdictFirstUniversal ==
    pc = "done" =>
        /\ (winningStartConfigId # -1) <=> (UniversalIds # {})
        /\ UniversalIds # {} => winningStartConfigId \in UniversalIds
        /\ (UniversalIds # {} /\ variant # "k_cops_rounds") =>
              \A d \in UniversalIds \ { winningStartConfigId } :
                  LexBefore(ConfigAt(winningStartConfigId), ConfigAt(d))
C2_Witness ==
    /\ pc = "done" /\ variant = "k_cops_3"
    /\ winningStartConfigId = 1
    /\ Cardinality(UniversalIds) >= 2

\* C3: the in-place scans of k_cops.cpp and k_cops_2.cpp and the queue solver of
\* k_cops_3.cpp end with the same copWin table and the same robberWin table
\* (stated for the runs whose adjacency reads stay inside the table).
Scan2Final == ScanRun2(initializeCaptures2)
Scan1Final ==
    LET cc == generateCopConfigsRec(k, N, 0, << >>)
        i == initializeCaptures1(cc)
    IN  ScanRun1(teamMoves(N, g, cc), [cw |-> i.cw, rw |-> i.rw, sm |-> i.sm, ch |-> FALSE])
C3_ScanAndQueueAgree ==
    (pc = "done" /\ variant = "k_cops_3" /\ ReadsInBounds) =>
        /\ copTurnWins = Scan2Final.cw
        /\ robberTurnWins = Scan2Final.rw
        /\ copTurnWins = Scan1Final.cw
        /\ robberTurnWins = Scan1Final.rw

\* C4: the wave solver ends with the same copWin, robberWin and safeCount tables
\* and the same verdict whatever the number of workers and however their
\* atomic operations interleave: the tables are those of the single-worker run.
WaveSequential ==
    LET i == initializeCaptures3
    IN  WaveRun([cw |-> i.cw, rw |-> i.rw, sm |-> i.sm, out |-> << >>], i.q)
C4_WaveDeterministic ==
    (pc = "done" /\ variant = "k_cops_4") =>
        LET ref == WaveSequential
        IN  /\ copTurnWins = ref.cw
            /\ robberTurnWins = ref.rw
            /\ robberSafeMoves = ref.sm
            /\ winningStartConfigId = FirstUniversal(ref.cw)
C4_Witness ==
    /\ pc = "done" /\ variant = "k_cops_4"
    /\ numThreads = 2
    /\ passes >= 3
    /\ winningStartConfigId # -1

\* C5: the retrograde phase ends for every graph and k: the scans reach a pass
\* that flips nothing, the queue is drained, the frontier becomes empty.  Stated
\* by a variant: while the phase runs a step is always possible, and every step
\* strictly lowers a natural number, which is 0 only once the phase has ended.
Zeros(t) == Cardinality({ i \in 1..Len(t) : t[i] = 0 })
Pending(seqs) == Len(Stitch(seqs, 1))
\* more than the atomic operations all workers can have left in their entries
OpsBound == 1 + numThreads * (configCount + Len(edges) + Len(heapTail) + 1)
RECURSIVE WaveOpsLeft(_)
WaveOpsLeft(t) ==
    IF t > numThreads THEN 0
    ELSE WaveOpsLeft(t + 1)
         + (IF cursor[t].q < cursor[t].endIdx
            THEN Len(WaveTargets(At(currentFrontier, cursor[t].q))) - cursor[t].i
            ELSE 0)
RECURSIVE WaveEntriesLeft(_)
WaveEntriesLeft(t) ==
    IF t > numThreads THEN 0
    ELSE WaveEntriesLeft(t + 1) + (cursor[t].endIdx - cursor[t].q)
Variant ==
    CASE pc \in { "done", "error", "crash" } -> 0
      [] pc = "solve" /\ variant \in { "k_cops", "k_cops_2", "k_cops_rounds" } ->
            1 + 2 * (Zeros(copTurnWins) + Zeros(robberTurnWins)) + (IF changed THEN 1 ELSE 0)
      [] pc = "solve" /\ variant = "k_cops_3" ->
            1 + 2 * numStates - qReadHead
      [] pc = "solve" /\ variant = "k_cops_4" ->
            1 + OpsBound * (5 * (Zeros(copTurnWins) + Zeros(robberTurnWins))
                            + 3 * Len(currentFrontier))
      [] pc = "wave" ->
            1 + OpsBound * (5 * (Zeros(copTurnWins) + Zeros(robberTurnWins))
                            + 4 * Pending(localNextFrontiers) + WaveEntriesLeft(1) + 1)
              + WaveOpsLeft(1)
      [] OTHER -> 0
CanStep ==
    \/ LoopDone
    \/ variant \in { "k_cops", "k_cops_2", "k_cops_rounds" } /\ changed
    \/ variant = "k_cops_3" /\ qReadHead < Len(workQueue)
    \/ variant = "k_cops_4" /\ pc = "solve" /\ currentFrontier # << >>
    \/ pc = "wave" /\ \E t \in 1..numThreads : cursor[t].q < cursor[t].endIdx
    \/ pc = "wave" /\ \A t \in 1..numThreads : cursor[t].q >= cursor[t].endIdx
C5_Terminates ==
    [][/\ (pc' \in { "solve", "wave" }) => CanStep'
       /\ (pc \in { "solve", "wave" }) =>
             \E now \in { Variant } : \E next \in { Variant' } : 0 <= next /\ next < now]_vars
C5_Witness ==
    /\ pc = "done"
    /\ \/ variant = "k_cops_2" /\ passes >= 3 /\ ~changed
       \/ variant = "k_cops_3" /\ qReadHead = Len(workQueue) /\ qReadHead > 2 * N /\ N > 0
       \/ variant = "k_cops_4" /\ currentFrontier = << >> /\ passes >= 3

\* C6: for N >= 1 the enumerator writes exactly C(N+k-1, k) records of k bytes,
\* each non-decreasing with entries in [0, N), in strictly increasing
\* lexicographic order, so every sorted k-multiset occurs exactly once; every
\* write lands inside the M*k-byte buffer and the buffer ends up full.
C6_ConfigsEnumerated ==
    /\ (Packed /\ pc = "gen") => offset + k <= configCount * k
    /\ (Packed /\ Generated) =>
          /\ configCount = RefBinom(N + k - 1, k)
          /\ configCount = Cardinality(Multisets(k, N))
          /\ offset = configCount * k
          /\ Len(configs) = configCount * k
          /\ \A i \in 0..(configCount - 1) : Record(configs, k, i) \in Multisets(k, N)
          /\ \A i \in 0..(configCount - 2) :
                LexBefore(Record(configs, k, i), Record(configs, k, i + 1))
    /\ (~Packed /\ Generated) =>
          /\ Len(copConfigs) = RefBinom(N + k - 1, k)
          /\ \A i \in 1..Len(copConfigs) : copConfigs[i] \in Multisets(k, N)
          /\ \A i \in 1..(Len(copConfigs) - 1) : LexBefore(copConfigs[i], copConfigs[i + 1])
C6_Witness ==
    /\ Packed /\ pc = "trans" /\ N = 3 /\ k = 2
    /\ configCount = 6
    /\ configs = << 0, 0, 0, 1, 0, 2, 1, 1, 1, 2, 2, 2 >>

\* C7: the binary search over the packed array returns, for every sorted
\* k-multiset, the one id whose record equals it; looking up the record stored
\* at id i returns i.
C7_LookupReturnsId ==
    (Packed /\ Generated) =>
        /\ \A i \in 0..(configCount - 1) : Lookup(Record(configs, k, i)) = i
        /\ \A c \in Multisets(k, N) :
              /\ Lookup(c) \in 0..(configCount - 1)
              /\ Record(configs, k, Lookup(c)) = c
C7_Witness ==
    /\ Packed /\ pc = "init" /\ N = 3 /\ k = 2
    /\ Lookup(<< 1, 2 >>) = 4

\* C8: the CSR row of every configuration C holds, sorted and without
\* duplicates, exactly id(C') * N for the team moves C' of C (each cop stays or
\* moves to a neighbour); the vector solver's row holds the same ids (stated
\* for the runs whose adjacency reads stay inside the table).
C8_RowsAreTeamMoves ==
    /\ (Packed /\ Built /\ ReadsInBounds) =>
          \A cId \in 0..(configCount - 1) :
              CsrRow(cId) = SortedSeqOf({ d * N : d \in RefSuccIds(cId) })
    /\ (~Packed /\ Built) =>
          \A cId \in 0..(configCount - 1) :
              /\ Range(copTransitions[cId + 1]) = RefSuccIds(cId)
              /\ Len(copTransitions[cId + 1]) = Cardinality(RefSuccIds(cId))

\* C9: reading row v of the adjacency index up to the first sentinel yields
\* exactly the oracle's neighbours of v, also for a vertex of degree D (stated
\* for the runs whose adjacency reads stay inside the table).
C9_RowReadIsNeighbours ==
    (Packed /\ Generated /\ ReadsInBounds) =>
        \A v \in Vertices(N) : getEdges(v) = SortedSeqOf(NeighbourSet(N, g, v))

\* C10: at the end of the depth-tracking solver stepsToWin(C, r) is the minimax
\* capture depth: 0 if r is in C, otherwise 1 + the least robber-turn depth
\* over the team moves C' with robberWin(C', r) = 1, the robber-turn depth
\* being 0 if r is in C' and otherwise the largest stepsToWin(C', v) over v in
\* N+(r) (stated for the runs whose adjacency reads stay inside the table).
MinOf(S) == CHOOSE x \in S : \A y \in S : x <= y
RobberDepth(d, r) ==
    IF Caught(ConfigAt(d), r) THEN 0
    ELSE MaxOf({ At(stepsToWin, d * N + v) : v \in ClosedNbhd(r) })
DepthOk(s) ==
    LET cId == s \div N
        r == s % N
        wins == { d \in RefSuccIds(cId) : At(robberTurnWins, d * N + r) = 1 }
    IN  IF Caught(ConfigAt(cId), r) THEN At(stepsToWin, s) = 0
        ELSE /\ wins # {}
             /\ At(stepsToWin, s) = 1 + MinOf({ RobberDepth(d, r) : d \in wins })
C10_StepsAreMinimaxDepth ==
    (pc = "done" /\ variant = "k_cops_rounds" /\ ReadsInBounds) =>
        \A s \in StateIds : At(copTurnWins, s) = 1 => DepthOk(s)

\* C11: with depth tracking, on WIN the reported configuration wins against
\* every robber start and its worst stepsToWin over the robber starts is the
\* least among all such configurations; among the configurations that attain
\* this least value it is the lexicographically first; the reported capture
\* time is that least value.
RefWorst(cId) == MaxOf({ At(stepsToWin, cId * N + r) : r \in Vertices(N) })
C11_WitnessMinimizesWorstDepth ==
    (pc = "done" /\ variant = "k_cops_rounds" /\ winningStartConfigId # -1) =>
        /\ winningStartConfigId \in UniversalIds
        /\ overallMinWorstCase = RefWorst(winningStartConfigId)
        /\ \A d \in UniversalIds :
              /\ RefWorst(winningStartConfigId) <= RefWorst(d)
              /\ (RefWorst(d) = RefWorst(winningStartConfigId) /\ d # winningStartConfigId) =>
                    LexBefore(ConfigAt(winningStartConfigId), ConfigAt(d))
C11_Witness ==
    /\ pc = "done" /\ variant = "k_cops_rounds"
    /\ winningStartConfigId >= 1
    /\ \E d \in UniversalIds : d < winningStartConfigId /\ RefWorst(d) > overallMinWorstCase
    /\ \E d \in UniversalIds : d > winningStartConfigId /\ RefWorst(d) = overallMinWorstCase

\* the lines of the path written on entering a turn of the loop with the cops
\* to move: the first line and every line that follows a robber's line
EntryLines == { i \in 1..Len(pathFile) : i = 1 \/ pathFile[i - 1][3] = "Robber's Turn" }
LineSteps(line) == At(stepsToWin, RefId(line[1]) * N + line[2])
CurrSteps == At(stepsToWin, currCId * N + currRobber)

\* C12: the path extraction, started from the reported configuration and a
\* robber start of largest depth, always ends, and ends on a captured
\* position: stepsToWin at the successive entries of the cops' turn is
\* strictly decreasing and never negative, so the loop is left after at most
\* stepsToWin-of-the-start turns, and the last line written is a capture.
C12_TraceDescendsToCapture ==
    (pc \in { "trace", "traced" }) =>
        /\ \A i, j \in EntryLines : i < j => LineSteps(pathFile[i]) > LineSteps(pathFile[j])
        /\ \A i \in EntryLines : LineSteps(pathFile[i]) >= 0
        /\ pc = "trace" =>
              /\ CurrSteps >= 0
              /\ \A i \in EntryLines : LineSteps(pathFile[i]) > CurrSteps
              /\ Len(pathFile) + 2 <= MaxPathLines
        /\ pc = "traced" =>
              /\ pathFile[Len(pathFile)][3] = "Game Over - Captured!"
              /\ Caught(pathFile[Len(pathFile)][1], pathFile[Len(pathFile)][2])

\* the depth that remains after the cops have moved to d with the robber at r
\* and the robber to answer: 0 on a capture, else the largest stepsToWin over
\* the robber's answers in N+(r); BIG_STEPS when an answer is not cop-winning
ResponseDepth(d, r) ==
    IF Caught(ConfigAt(d), r) THEN 0
    ELSE IF \E v \in ClosedNbhd(r) : At(copTurnWins, d * N + v) = 0 THEN BIG_STEPS
    ELSE MaxOf({ At(stepsToWin, d * N + v) : v \in ClosedNbhd(r) })
CopLines == { i \in 1..Len(pathFile) : pathFile[i][3] = "Cop's Turn" }
RobberLines == { i \in 1..Len(pathFile) : pathFile[i][3] = "Robber's Turn" }
\* the position the robber's line i leads to: the next line, or the current
\* position when the line is the last one written
AfterRobber(i) ==
    IF i < Len(pathFile) THEN << RefId(pathFile[i + 1][1]), pathFile[i + 1][2] >>
    ELSE << currCId, currRobber >>

\* every row read returns exactly the oracle's neighbours of its vertex
RowsExact ==
    \A v \in Vertices(N) :
        /\ Len(getEdges(v)) = Cardinality(NeighbourSet(N, g, v))
        /\ Range(getEdges(v)) = NeighbourSet(N, g, v)

\* C13: in the extracted path every move of the cops leads to a team move whose
\* worst remaining depth over the robber's answers in N+(r) is least, every
\* move of the robber leads to the vertex of N+(r) (a neighbour or r itself) of
\* largest remaining depth, and the finished path holds exactly stepsToWin of
\* its first position many moves of the cops (stated for the runs whose row
\* reads return exactly the neighbours).
C13_TraceIsMinimax ==
    (pc \in { "trace", "traced" } /\ RowsExact) =>
        /\ \A i \in CopLines :
              LET cId == RefId(pathFile[i][1])
                  r == pathFile[i][2]
                  nextCId == RefId(pathFile[i + 1][1])
              IN  /\ nextCId \in RefSuccIds(cId)
                  /\ \A d \in RefSuccIds(cId) : ResponseDepth(nextCId, r) <= ResponseDepth(d, r)
        /\ \A i \in RobberLines :
              LET cId == RefId(pathFile[i][1])
                  r == pathFile[i][2]
              IN  /\ AfterRobber(i)[1] = cId
                  /\ AfterRobber(i)[2] \in ClosedNbhd(r)
                  /\ \A v \in ClosedNbhd(r) :
                        At(stepsToWin, cId * N + v) <= At(stepsToWin, cId * N + AfterRobber(i)[2])
        /\ pc = "traced" => Cardinality(CopLines) = LineSteps(pathFile[1])

\* C14: when the depth-tracking solver has ended, stepsToWin is -1 exactly
\* for the positions with copWin = 0, and 0 exactly for the positions whose
\* robber stands on a cop.
C14_StepsSentinels ==
    (pc = "done" /\ variant = "k_cops_rounds") =>
        \A s \in StateIds :
            /\ (At(stepsToWin, s) = -1) <=> (At(copTurnWins, s) = 0)
            /\ (At(stepsToWin, s) = 0) <=> Caught(ConfigAt(s \div N), s % N)
C14_Witness ==
    /\ pc = "done" /\ variant = "k_cops_rounds"
    /\ \E s \in StateIds : At(stepsToWin, s) = -1
    /\ \E s \in StateIds : At(stepsToWin, s) = 0
    /\ \E s \in StateIds : At(stepsToWin, s) >= 2

\* no configuration array, transition table, state table or verdict exists
NothingAllocated ==
    /\ configs = << >> /\ copConfigs = << >>
    /\ transitionHeads = << >> /\ transitions = << >> /\ copTransitions = << >>
    /\ copTurnWins = << >> /\ robberTurnWins = << >>
    /\ robberSafeMoves = << >> /\ stepsToWin = << >>
    /\ winningStartConfigId = -1
\* the solve never gets past its input checks
RejectedEarly == pc \in { "start", "error" } /\ NothingAllocated

Ended == pc \in { "done", "error", "crash" }

RECURSIVE Grow(_, _)
Grow(S, n) ==
    IF n = 0 THEN S
    ELSE Grow(S \cup UNION { NeighbourSet(N, g, v) : v \in S }, n - 1)
Component(v) == Grow({v}, N)
Components == { Component(v) : v \in Vertices(N) }

\* C17: on a graph with several connected components every reported winning
\* configuration holds a cop in every component, and the verdict is LOSS
\* whenever there are fewer cops than components.
C17_CopInEveryComponent ==
    (pc = "done") =>
        /\ winningStartConfigId # -1 =>
              \A K \in Components :
                  \E i \in 1..k : ConfigAt(winningStartConfigId)[i] \in K
        /\ k < Cardinality(Components) => winningStartConfigId = -1

\* the path 0 - 1 - 2 solved with one cop by the depth-tracking solver
PathGraph == { << 0, 1 >>, << 1, 2 >> }
OnPath3 == variant = "k_cops_rounds" /\ N = 3 /\ g = PathGraph /\ k = 1

\* C18: on the path 0 - 1 - 2 with k = 1 the depth-tracking solver returns WIN
\* with the cop on the middle vertex 1 and a capture depth of at most 1; no
\* run on this input faults.
C18_PathMiddleWins ==
    OnPath3 =>
        /\ pc # "crash"
        /\ pc \in { "done", "trace", "traced" } =>
              /\ winningStartConfigId # -1
              /\ ConfigAt(winningStartConfigId) = << 1 >>
              /\ overallMinWorstCase <= 1
C18_Witness ==
    /\ OnPath3 /\ pc = "done"
    /\ winningStartConfigId = 1
    /\ overallMinWorstCase = 1

\* the 4-cycle 0 - 1 - 2 - 3 - 0
CycleGraph == { << 0, 1 >>, << 1, 2 >>, << 2, 3 >>, << 0, 3 >> }
OnCycle4 == N = 4 /\ g = CycleGraph

\* C19: on the 4-cycle with k = 1 the verdict of every solver is LOSS.
C19_CycleOneCopLoses ==
    (OnCycle4 /\ k = 1 /\ pc = "done") => winningStartConfigId = -1

\* C20: on the 4-cycle with k = 2 every solver ends with the verdict WIN.
C20_CycleTwoCopsWin ==
    (OnCycle4 /\ k = 2 /\ Ended) => (pc = "done" /\ winningStartConfigId # -1)

\* C21: a process ends with status 0 after a successful solve, and with a
\* non-zero status when its arguments are malformed or the graph is empty
C21_ExitStatus ==
    pc = "exit" =>
        IF ~WellFormed \/ N = 0 THEN exitCode # 0 ELSE exitCode = 0

\* the copWin table k_cops_5.cpp computes from the generated configurations and
\* the adjacency table when one worker runs every wave alone
PackSequential ==
    PackedCopWins(PackRun([gs |-> initializeCaptures5.gs, out |-> << >>], SeedQueue).gs)
\* the copWin table the solver at hand has ended with
FinalCopWins == IF variant = "k_cops_5" THEN PackedCopWins(gameStates) ELSE copTurnWins

CopWinOf(s) == At(FinalCopWins, s)
SafeCountOf(s) ==
    IF variant = "k_cops_5" THEN SafeMoves(At(gameStates, s)) ELSE At(robberSafeMoves, s)
\* the workers whose step has appended entry e to their own vector
Pushers(e) ==
    { t \in 1..numThreads :
        \E i \in 1..Len(Appended(localNextFrontiers[t], localNextFrontiers'[t])) :
            Appended(localNextFrontiers[t], localNextFrontiers'[t])[i] = e }
\* one atomic operation of a worker: at most one push; a cop-turn entry is pushed
\* exactly by the step that takes copWin from 0 to 1, a robber-turn entry exactly
\* by the step that takes the counter from 1 to 0 (which sets robberWin where the
\* flag is stored); no entry, seeded or pushed, has been pushed a second time
PushDiscipline ==
    /\ \A t \in 1..numThreads : Len(localNextFrontiers'[t]) <= Len(localNextFrontiers[t]) + 1
    /\ \A s \in 0 .. (numStates - 1) :
          /\ Cardinality(Pushers(<< s, FALSE >>)) =
                 (IF CopWinOf(s) = 0 /\ CopWinOf(s)' = 1 THEN 1 ELSE 0)
          /\ Cardinality(Pushers(<< s, TRUE >>)) =
                 (IF SafeCountOf(s) = 1 /\ SafeCountOf(s)' = 0 THEN 1 ELSE 0)
          /\ (variant = "k_cops_4" /\ Pushers(<< s, TRUE >>) # { })
                 => At(robberTurnWins, s)' = 1
    /\ pushLog'.again = { }

RobberWinIsAllCopWin(s) ==
    (At(robberTurnWins, s) = 1) <=>
        \A v \in ClosedNbhd(s % N) : At(copTurnWins, (s \div N) * N + v) = 1

\* C24: after the solve, robberWin(C, r) = 1 exactly when copWin(C, v) = 1 for
\* every v of N+(r), the robber's vertex and its neighbours
C24_RobberWinFixpoint ==
    pc = "done" => \A s \in 0 .. (numStates - 1) : RobberWinIsAllCopWin(s)

\* copWin(C, r) is 1 exactly when r is in C or some team move C' of C has
\* robberWin(C', r) = 1
CopWinIsSomeRobberWin(s) ==
    (At(copTurnWins, s) = 1) <=>
        \/ Caught(ConfigAt(s \div N), s % N)
        \/ \E d \in RefSuccIds(s \div N) : At(robberTurnWins, d * N + (s % N)) = 1

\* C25: after the solve, copWin(C, r) = 1 exactly when r is in C or
\* robberWin(C', r) = 1 for some C' of transitions(C)
C25_CopWinFixpoint ==
    pc = "done" => \A s \in 0 .. (numStates - 1) : CopWinIsSomeRobberWin(s)

\* robberWin of state s: the stored flag, and in the packed layout of
\* k_cops_5.cpp, which stores none, the counter being 0
RobberWinOf(s) ==
    IF variant = "k_cops_5" THEN (IF SafeCountOf(s) = 0 THEN 1 ELSE 0)
    ELSE At(robberTurnWins, s)
\* the state tables are allocated and initialised
Solving == pc \in { "solve", "wave", "done" }
FlagsKept ==
    Solving =>
        \A s \in 0 .. (numStates - 1) :
            /\ CopWinOf(s) = 1 => CopWinOf(s)' = 1
            /\ RobberWinOf(s) = 1 => RobberWinOf(s)' = 1
CapturesFlagged ==
    Solving =>
        \A s \in 0 .. (numStates - 1) :
            CaughtPacked(s \div N, s % N) => (CopWinOf(s) = 1 /\ RobberWinOf(s) = 1)

\* C26: no step of any solver takes copWin or robberWin of a state from 1 back
\* to 0, and every capture state has both flags 1 from the initialization to
\* the end (stated for the runs whose rows read exactly their neighbours)
C26_FlagsMonotone ==
    [][RowsExact => (FlagsKept /\ CapturesFlagged')]_vars

\* after the initialization, between two waves or two queue steps, and at the end
BetweenSteps == pc \in { "solve", "done" }

\* C27: after the initialization and between waves / queue steps,
\* robberWin(C, r) = 1 exactly when safeCount(C, r) = 0, in the solvers that
\* keep the counter (k_cops_3.cpp, k_cops_4.cpp, and k_cops_5.cpp's packed
\* field); stated for the runs whose rows read exactly their neighbours
C27_RobberWinIffNoSafeMove ==
    (BetweenSteps /\ RowsExact) =>
        \A s \in 0 .. (numStates - 1) : (RobberWinOf(s) = 1) <=> (SafeCountOf(s) = 0)

\* the vertices of N+(r) whose position against C is flagged cop-winning
KnownCopWins(s) ==
    { v \in ClosedNbhd(s % N) : CopWinOf((s \div N) * N + v) = 1 }

\* C28: after the initialization and between waves / queue steps,
\* safeCount(C, r) + |{ v in N+(r) : copWin(C, v) = 1 }| = deg+(r) = |N(r)| + 1;
\* stated for the runs whose rows read exactly their neighbours
C28_SafeCountBalance ==
    (BetweenSteps /\ RowsExact) =>
        \A s \in 0 .. (numStates - 1) :
            SafeCountOf(s) + Cardinality(KnownCopWins(s)) = Cardinality(ClosedNbhd(s % N))

\* no counter is larger after the step than before it
CountersNotRaised ==
    Solving => \A s \in 0 .. (numStates - 1) : SafeCountOf(s)' <= SafeCountOf(s)

\* C29: no step of k_cops_3.cpp, k_cops_4.cpp or k_cops_5.cpp increases the
\* safeCount of any state, capture states included: no counter wraps below 0
\* (stated for the runs whose rows read exactly their neighbours)
C29_SafeCountNeverIncreases ==
    [][RowsExact => CountersNotRaised]_vars

\* the ids of the configurations in the built row of configuration cId
RowIds(cId) ==
    IF Packed THEN { t \div N : t \in Range(CsrRow(cId)) }
    ELSE Range(copTransitions[cId + 1])

\* C30: the team-move relation is symmetric: C' is in transitions(C) exactly
\* when C is in transitions(C')
C30_TransitionsSymmetric ==
    Built =>
        \A c, d \in 0 .. (configCount - 1) : (d \in RowIds(c)) <=> (c \in RowIds(d))


\* buildTransitions has searched at least one tuple
Searched == probe.cId > 0 \/ probe.tempMoves # << >>
\* C31: every sorted tuple that buildTransitions makes from a configuration (each
\* cop staying or stepping along a row read) is found by the binary search: the
\* nextId that is pushed is the index of a record, never the not-found value, and
\* the search never probes outside [0, configCount).
C31_EveryTupleFound == Searched => probe.nextId \in 0 .. (configCount - 1)

\* the seeded work list of the two work-list solvers with separate tables
SeededFrontier == IF variant = "k_cops_3" THEN workQueue ELSE currentFrontier
EntryCount(q, e) == Cardinality({ i \in 1..Len(q) : q[i] = e })
InitializedRight ==
    \A s \in StateIds :
        IF (s % N) \in Range(ConfigAt(s \div N))
        THEN /\ At(copTurnWins, s) = 1
             /\ At(robberTurnWins, s) = 1
             /\ At(robberSafeMoves, s) = 0
             /\ EntryCount(SeededFrontier, << s, FALSE >>) = 1
             /\ EntryCount(SeededFrontier, << s, TRUE >>) = 1
        ELSE /\ At(copTurnWins, s) = 0
             /\ At(robberTurnWins, s) = 0
             /\ At(robberSafeMoves, s) = Cardinality(ClosedNbhd(s % N))
             /\ EntryCount(SeededFrontier, << s, FALSE >>) = 0
             /\ EntryCount(SeededFrontier, << s, TRUE >>) = 0
\* C32: when initializeCaptures of k_cops_3 / k_cops_4 has run, every state (C, r)
\* with r in C has copWin = 1, robberWin = 1, safeCount = 0 and exactly one
\* cop-turn and one robber-turn entry on the initial frontier; every other state
\* has copWin = 0, robberWin = 0, safeCount = |N(r)| + 1 and no entry.
C32_InitialTables ==
    [][(pc = "init" /\ pc' = "solve" /\ variant \in { "k_cops_3", "k_cops_4" })
           => InitializedRight']_vars

\* the counter stored for every state that is no capture is deg+(r)
DegreesStored ==
    \A s \in StateIds :
        ~CaughtPacked(s \div N, s % N)
            => SafeMoves(At(gameStates, s)) = Cardinality(ClosedNbhd(s % N))
\* C33: in k_cops_5 the safe count that initializeCaptures stores for a state that
\* is no capture equals deg+(r) = |N(r)| + 1, on every graph the solver runs on,
\* those with a vertex of deg+(r) > 127 included (the rows of the adjacency table
\* being read exactly).
C33_PackedDegreeExact ==
    [][(pc = "init" /\ pc' = "solve" /\ variant = "k_cops_5" /\ RowsExact)
           => DegreesStored']_vars

\* the states (C, r') with r' in N+(r), for the state s = (C, r)
RobberPreds(s) == { (s \div N) * N + v : v \in ClosedNbhd(s % N) }
\* a step that decrements within `touched` (a subset of the (C, r') with r' in
\* N+(r)) and nowhere else: one less where the robber was not yet winning, no
\* counter and no robberWin flag changed outside, no copWin flag changed at all
DecrementFrame(s, touched) ==
    /\ touched \subseteq RobberPreds(s)
    /\ \A p \in StateIds :
          /\ At(copTurnWins, p)' = At(copTurnWins, p)
          /\ (p \in touched /\ At(robberTurnWins, p) = 0)
                 => At(robberSafeMoves, p)' = At(robberSafeMoves, p) - 1
          /\ p \notin touched
                 => /\ At(robberSafeMoves, p)' = At(robberSafeMoves, p)
                    /\ At(robberTurnWins, p)' = At(robberTurnWins, p)
\* k_cops_3: the queue entry popped is a cop-turn entry
CopTurnPop ==
    /\ pc = "solve"
    /\ variant = "k_cops_3"
    /\ qReadHead < Len(workQueue)
    /\ ~At(workQueue, qReadHead)[2]
    /\ qReadHead' = qReadHead + 1
\* k_cops_4: worker t performs one processRobberMove of a cop-turn entry
CopTurnOp(t) ==
    /\ pc = "wave"
    /\ variant = "k_cops_4"
    /\ cursor[t]' # cursor[t]
    /\ ~At(currentFrontier, cursor[t].q)[2]
\* the processRobberMove calls of one cop-turn entry: (C, r) first, then each
\* other (C, r') with r' in N+(r), none twice
TargetsExact(packedNode) ==
    LET targets == WaveTargets(packedNode)
    IN  /\ targets[1] = packedNode[1]
        /\ Range(targets) = RobberPreds(packedNode[1])
        /\ Len(targets) = Cardinality(RobberPreds(packedNode[1]))
\* C34: expanding a cop-turn entry (C, r) takes exactly one from safeCount(C, r')
\* for each r' in N+(r) that is not yet robber-winning, once for r' = r, and
\* changes no copWin flag and no counter or flag of a state outside
\* { (C, r') : r' in N+(r) }.  In k_cops_3 the expansion is one step; in k_cops_4
\* it is one processRobberMove per step, over targets that list N+(r) once each.
C34_CopTurnFrame ==
    [][/\ CopTurnPop
           => LET s == At(workQueue, qReadHead)[1]
              IN  DecrementFrame(s, RobberPreds(s))
       /\ \A t \in 1..numThreads :
              CopTurnOp(t)
                  => LET packedNode == At(currentFrontier, cursor[t].q)
                     IN  /\ TargetsExact(packedNode)
                         /\ DecrementFrame(packedNode[1],
                                           { At(WaveTargets(packedNode), cursor[t].i) })]_vars

\* the workers of the wave have left their loops (they are joined next)
WorkersDone ==
    \A t \in 1..numThreads :
        /\ cursor[t].q >= cursor[t].endIdx
        /\ variant = "k_cops_5" => cursor[t].done
\* the step from the joins to the merged frontier
MergeStep == pc = "wave" /\ pc' = "solve"
\* the merged frontier holds the workers' local next-frontiers one after the
\* other, each whole and in its order, and nothing else
MergedIsConcat ==
    LET l == localNextFrontiers
        off(t) == SumLens(l, t - 1)
    IN  /\ Len(currentFrontier') = SumLens(l, numThreads)
        /\ \A t \in 1..numThreads :
               \A j \in 1..Len(l[t]) : currentFrontier'[off(t) + j] = l[t][j]
\* C35: in each wave of k_cops_4 and k_cops_5 every entry of the current frontier
\* is taken by exactly one worker (never by two, and by one when the workers are
\* joined); the frontier the workers read does not change during the wave, so what
\* is pushed in a wave is expanded in the next one only; and the merged next
\* frontier is the concatenation of the workers' local next-frontiers.
C35_WaveDiscipline ==
    [][/\ pc' = "wave"
           => /\ Len(expandedBy') = Len(currentFrontier')
              /\ \A i \in 1..Len(expandedBy') : Len(expandedBy'[i]) <= 1
       /\ (pc = "wave" /\ pc' = "wave") => currentFrontier' = currentFrontier
       /\ MergeStep
           => /\ WorkersDone
              /\ \A i \in 1..Len(currentFrontier) : Len(expandedBy[i]) = 1
              /\ MergedIsConcat]_vars
C35_Witness ==
    /\ pc = "wave"
    /\ variant = "k_cops_5"
    /\ numThreads = 2
    /\ WorkersDone
    /\ \A t \in 1..2 : localNextFrontiers[t] # << >>
    /\ \A t \in 1..2 : \E i \in 1..Len(expandedBy) : expandedBy[i] = << t >>

\* C36: in k_cops_3 the write head of the work queue never exceeds the 2 * M * N
\* slots allocated, the read head never passes the write head, and no (state,
\* turn) pair is written to the queue twice.
C36_QueueWithinCapacity ==
    (variant = "k_cops_3" /\ Solving)
        => /\ Len(workQueue) <= 2 * numStates
           /\ qReadHead <= Len(workQueue)
           /\ \A i, j \in 1..Len(workQueue) : workQueue[i] = workQueue[j] => i = j
C36_Witness ==
    /\ variant = "k_cops_3"
    /\ pc = "done"
    /\ qReadHead = Len(workQueue)
    /\ Len(workQueue) = 2 * numStates
    /\ \E i \in 1..Len(workQueue) : ~CaughtPacked(workQueue[i][1] \div N, workQueue[i][1] % N)

\* the moves of the robber from (C, r), staying included, to a state the cops
\* have not won
OpenMoves(s) ==
    { v \in ClosedNbhd(s % N) : At(copTurnWins, (s \div N) * N + v) = 0 }
\* C37: when the queue solver (k_cops_3) and the scan solver (k_cops) have
\* ended, safeCount(C, r) is the number of v in N+(r) with copWin(C, v) = 0, for
\* every state (C, r).
C37_FinalSafeCount ==
    (pc = "done" /\ variant \in { "k_cops", "k_cops_3" })
        => \A s \in StateIds : At(robberSafeMoves, s) = Cardinality(OpenMoves(s))

\* C38: the transition build of k_cops_4, run on any number of threads (more
\* threads than configurations included), leaves the heads and transitions
\* arrays that the sequential build of k_cops_3 makes from the same
\* configurations and adjacency table.
C38_ThreadedBuildSame ==
    [][(pc = "trans" /\ pc' = "init" /\ variant = "k_cops_4")
           => /\ transitionHeads' = buildTransitions.heads
              /\ transitions' = buildTransitions.transitions]_vars
C38_Witness ==
    /\ pc = "init"
    /\ variant = "k_cops_4"
    /\ numThreads = 2
    /\ configCount >= 3
    /\ Len(transitions) > configCount

\* k_cops_5: worker t performs one atomic operation of the entry it is on
PackedOp(t) ==
    /\ pc = "wave"
    /\ variant = "k_cops_5"
    /\ cursor[t].q < cursor[t].endIdx
    /\ cursor[t]' # cursor[t]
\* C39: in the packed byte of k_cops_5 the decrement of the safe count (an atomic
\* subtraction of 2, modulo 256) leaves bit 0 of every byte as it was, also when
\* the counter field was 0 and the subtraction wraps; the fetch-or of the copWin
\* bit leaves bits 1..7 of every byte as they were.
C39_FieldsIndependent ==
    [][\A t \in 1..numThreads :
           PackedOp(t)
               => IF At(currentFrontier, cursor[t].q)[2]
                  THEN \A s \in StateIds :
                           SafeMoves(At(gameStates, s))' = SafeMoves(At(gameStates, s))
                  ELSE \A s \in StateIds :
                           CopWinBit(At(gameStates, s))' = CopWinBit(At(gameStates, s))]_vars
C39_Witness ==
    /\ variant = "k_cops_5"
    /\ Solving
    /\ \E s \in StateIds : At(gameStates, s) = SAFE_MOVES_MASK + COP_WIN_BIT
    /\ \E s \in StateIds :
           /\ CopWinBit(At(gameStates, s)) = 1
           /\ SafeMoves(At(gameStates, s)) \in 1..N

=============================================================================
